---- MODULE Spec2Model ----
(***************************************************************************)
(* Job correlation and streaming execution layer of SandboxSDK             *)
(* (src/src/sandboxSdk.ts): one shared socket, many pending jobs, each     *)
(* with its own promise, timer and handlers; the listener registry and     *)
(* the disconnect teardown.                                                *)
(*                                                                         *)
(* The JavaScript event loop is modelled as follows: one action is one     *)
(* macrotask (a socket event, a timer callback, a public call) together    *)
(* with the microtasks it schedules.  The only continuations that outlive  *)
(* a macrotask are those of outputListener waiting for a caller callback   *)
(* whose promise is still pending; they are counted in inflight.           *)
(*                                                                         *)
(* Also modelled: the RateLimiter and the MetricsCollector, the sandbox    *)
(* and context caches of the facade, waitForConnection, executeBatch, and  *)
(* the context operations of the HTTP variant (src/unnamed/part_000).      *)
(***************************************************************************)
EXTENDS Integers, Sequences, FiniteSets, TLC

\* ---------------------------------------------------------------- bounds
MaxJobs == 2        \* jobs issued in one behaviour
MaxTime == 2        \* last clock tick
MaxMsgs == 2        \* messages delivered by the transport in one behaviour
MaxChunks == 4      \* chunks delivered in one behaviour of the assembly specifications
MaxClock == 3       \* last clock tick of the admission specifications
MaxCalls == 5       \* admitted calls in one behaviour of the admission specifications
MaxSamples == 4     \* recordRequest calls in one behaviour of the metrics specification
MaxWaiters == 2     \* waitForConnection calls in one behaviour
MaxBatch == 2       \* jobs of one executeBatch call
MaxGauge == 2       \* largest distance of the concurrent-job gauge from zero
MaxRequests == 3    \* HTTP requests issued in one behaviour

\* config.timeout, in clock ticks (configurable; 60000 ms by default)
TimeoutTicks == 1

\* the window of the rate limiter (60000 ms), in clock ticks
WindowTicks == 2

\* the ceiling the facade gives its RateLimiter (60 in the source)
MaxRequestsPerMinute == 3

\* the capacity of MetricsCollector.responseTimes (1000 in the source)
RingCap == 2

\* the timeout of waitForConnection (its argument; 10000 ms by default), in clock ticks
WaitTicks == 1

JobIds == 1..MaxJobs

\* ----------------------------------------------------------- event names
RESULT == "job:result"
STREAM == "job:stream"
STREAM_END == "job:stream:end"
JOB_OUTPUT == "job:output"

EventNames == {RESULT, STREAM, STREAM_END, JOB_OUTPUT}

\* undefined / null
None == "undefined"

\* a handler closure: the job whose closure it is and the function
Handler(j, fn) == [job |-> j, fn |-> fn]

VARIABLES
    now,          \* Date.now(), in ticks
    isConnected,  \* SandboxSDK.isConnected
    closed,       \* the socket was closed by disconnect(): no reconnection
    listeners,    \* SandboxSDK.listeners: Map<event, Set<handler>>
    socketOn,     \* handlers attached to the socket, per event
    nextId,       \* next fresh job id (uuid())
    kind,         \* per job: "none" | "unary" | "create" | "lookup" | "context" | "stream" | "term"
    sandboxOf,    \* per job: payload.sandboxId of the job emitted on the transport
    promise,      \* per job: [state, value] of the promise returned to the caller
    timer,        \* per job: "none" | "armed" | "cancelled" | "fired"
    deadline,     \* per job: tick at which the timer may fire
    hasCb,        \* per job: RunCodeOptions carries per-chunk callbacks
    execution,    \* per job: the Execution object of runCode
    output,       \* per job: the output string of runTerminal (sequence of characters)
    inflight,     \* per job: outputListener invocations suspended in a pending callback
    metrics,      \* MetricsCollector: counters, responseTimes and the average
    requestTimestamps, \* RateLimiter.requestTimestamps
    activeSandboxes,   \* SandboxSDK.activeSandboxes: the ids of the cached sandboxes
    activeContexts,    \* SandboxSDK.activeContexts: the cached contexts, [id, sandboxId]
    concurrentJobs,    \* RateLimiter.concurrentJobs
    http,         \* the HTTP variant: the requests it has issued and those in flight
    waiters,      \* per waitForConnection call: its promise, timer and connect subscription
    batch,        \* the executeBatch call: its jobs, its position and its results
    thrown,       \* the error of the latest public call that failed before issuing a job
    admitted,     \* history: the times of the calls the rate limiter admitted
    samples,      \* history: the durations passed to MetricsCollector.recordRequest
    received,     \* history: per job, the messages carrying its id that arrived while
                  \* its handler for their event was attached, in arrival order
    endSent,      \* history: job ids for which the remote side signalled completion
    msgs          \* history: number of messages delivered

vars == <<now, isConnected, closed, listeners, socketOn, nextId, kind, sandboxOf, promise,
          timer, deadline, hasCb, execution, output, inflight, metrics,
          requestTimestamps, activeSandboxes, activeContexts, concurrentJobs, http,
          waiters, batch, thrown, admitted, samples, received, endSent, msgs>>

\* the two caches of the facade
caches == <<activeSandboxes, activeContexts>>

\* what no operation of the socket SDK touches: the gauge of the RateLimiter,
\* which the facade never calls, and the requests of the HTTP variant
standalone == <<concurrentJobs, http>>

jobVars == <<kind, sandboxOf, promise, timer, deadline, hasCb, execution, output, inflight>>

\* the rate limiter and the outcome of the calls that passed or failed its check
limiterVars == <<requestTimestamps, thrown, admitted>>

\* what no handler of a job touches
apiVars == <<requestTimestamps, waiters, batch, thrown, admitted>>

\* -------------------------------------------------------------- promises
Pending == [state |-> "pending", value |-> None]

\* a promise that every resolve or reject call settles anew
SettleAgain(p, state, value) == [state |-> state, value |-> value]

\* resolve(v) / reject(e) of a promise: the first call settles it
Settle(p, state, value) ==
    IF p.state = "pending" THEN [state |-> state, value |-> value] ELSE p

Err(class, message) == [class |-> class, message |-> message]

\* clearTimeout(timeoutHandle)
ClearTimer(t) == IF t = "armed" THEN "cancelled" ELSE t

\* ------------------------------------------------------------- Execution
\* execution.error when no error is set
NoError == [name |-> None, value |-> None, traceback |-> None]

NewExecution == [results |-> <<>>, stdout |-> <<>>, stderr |-> <<>>,
                 error |-> NoError, executionCount |-> None]

\* ------------------------------------------------------ listener registry
EmptyRegistry == [e \in {} |-> {}]

Tracked(L, ev) == IF ev \in DOMAIN L THEN L[ev] ELSE {}

trackListener(L, ev, h) ==
    IF ev \in DOMAIN L
    THEN [L EXCEPT ![ev] = @ \cup {h}]
    ELSE [e \in DOMAIN L \cup {ev} |-> IF e = ev THEN {h} ELSE L[e]]

\* removeListener leaving the entry of an event whose last handler it removed
removeListenerKeepsEntry(L, ev, h) ==
    IF ev \notin DOMAIN L THEN L ELSE [L EXCEPT ![ev] = @ \ {h}]

\* removeListener deleting the whole entry of the event
removeListenerDropsEvent(L, ev, h) ==
    IF ev \notin DOMAIN L THEN L ELSE [e \in DOMAIN L \ {ev} |-> L[e]]

removeListener(L, ev, h) ==
    IF ev \notin DOMAIN L
    THEN L
    ELSE IF L[ev] \ {h} = {}
         THEN [e \in DOMAIN L \ {ev} |-> L[e]]
         ELSE [L EXCEPT ![ev] = @ \ {h}]

\* socket.on / socket.off
SocketOnAdd(S, ev, h) == [S EXCEPT ![ev] = @ \cup {h}]
SocketOff(S, ev, H) == [S EXCEPT ![ev] = @ \ H]

\* cleanupAllListeners without its socket.off calls
CleanupSocketKeepsAttached(S, L) == S

\* cleanupAllListeners: socket.off for every tracked handler
CleanupSocket(S, L) == [ev \in EventNames |-> S[ev] \ Tracked(L, ev)]

\* a handler that takes every message for its own
MatchesAny(j, id) == TRUE

\* the id test every handler starts with
Matches(j, id) == id = j

\* --------------------------------------------------------------- metrics
\* responseTimes.reduce((a, b) => a + b, 0)
RECURSIVE Sum(_)
Sum(q) == IF q = <<>> THEN 0 ELSE q[1] + Sum(Tail(q))

\* sum / length of JavaScript, kept as the fraction it denotes
Ratio(sum, n) == [num |-> sum, den |-> n]

\* updateAverageResponseTime
updateAverageResponseTime(m) ==
    IF Len(m.responseTimes) = 0
    THEN m
    ELSE [m EXCEPT !.averageResponseTime =
                       Ratio(Sum(m.responseTimes), Len(m.responseTimes))]

\* responseTimes.push(t) with no eviction
PushSampleKeepsAll(q, t) == Append(q, t)

\* responseTimes.push(t), then shift() when the ring holds more than RingCap
PushSample(q, t) ==
    LET r == Append(q, t)
    IN IF Len(r) > RingCap THEN Tail(r) ELSE r

recordRequest(m, success, responseTime) ==
    updateAverageResponseTime(
        [m EXCEPT !.totalRequests = @ + 1,
                  !.successfulRequests = IF success THEN @ + 1 ELSE @,
                  !.failedRequests = IF success THEN @ ELSE @ + 1,
                  !.responseTimes = PushSample(@, responseTime)])

\* new MetricsCollector()
NewMetrics == [totalRequests |-> 0, successfulRequests |-> 0, failedRequests |-> 0,
               executions |-> 0, activeSandboxes |-> 0, responseTimes |-> <<>>,
               averageResponseTime |-> Ratio(0, 1)]

recordExecution(m) == [m EXCEPT !.executions = @ + 1]

\* ---------------------------------------------------------- rate limiter
Max(a, b) == IF a >= b THEN a ELSE b

\* a filter that keeps every timestamp
PruneNothing(q, t) == q

\* a filter that keeps the timestamp exactly one window old
PruneKeepsBoundary(q, t) == SelectSeq(q, LAMBDA ts : ts >= t - WindowTicks)

\* the filter of canMakeRequest at time t: the timestamps after t - 60000
Prune(q, t) == SelectSeq(q, LAMBDA ts : ts > t - WindowTicks)

\* canMakeRequest at time t: its result; the window it stores is Prune(q, t)
canMakeRequest(q, t) == ~(Len(Prune(q, t)) >= MaxRequestsPerMinute)

\* getRetryAfter without the clamp
getRetryAfterUnclamped(q, t) ==
    IF Len(q) = 0 THEN 0 ELSE WindowTicks - (t - q[1])

\* getRetryAfter at time t
getRetryAfter(q, t) ==
    IF Len(q) = 0 THEN 0 ELSE Max(WindowTicks - (t - q[1]), 0)

\* the error a public call threw before issuing a job: RateLimitError carries
\* retryAfter, SandboxError names the sandbox that was not found
Thrown(op, class, retryAfter, sandbox) ==
    [op |-> op, class |-> class, retryAfter |-> retryAfter, sandbox |-> sandbox]
NothingThrown == Thrown(None, None, 0, None)

\* new SandboxError(`Sandbox ${sandboxId} not found`) thrown by op
NotFound(op, sb) == Thrown(op, "SandboxError", 0, sb)

\* a lookup that finds every sandbox
CachedAlways(sandboxes, sb) == TRUE

\* this.activeSandboxes.get(sandboxId) finds the sandbox
Cached(sandboxes, sb) == sb \in sandboxes

\* checkRateLimit refusing and recording the refused call all the same
checkRateLimitThrowsRecords(op) ==
    /\ ~canMakeRequest(requestTimestamps, now)
    /\ requestTimestamps' = Append(Prune(requestTimestamps, now), now)
    /\ thrown' = Thrown(op, "RateLimitError",
                        getRetryAfter(Prune(requestTimestamps, now), now), None)
    /\ admitted' = admitted

\* checkRateLimit of call op refusing: the window is pruned, nothing is
\* recorded and RateLimitError carries getRetryAfter()
checkRateLimitThrows(op) ==
    /\ ~canMakeRequest(requestTimestamps, now)
    /\ requestTimestamps' = Prune(requestTimestamps, now)
    /\ thrown' = Thrown(op, "RateLimitError",
                        getRetryAfter(Prune(requestTimestamps, now), now), None)
    /\ admitted' = admitted

\* checkRateLimit admitting: the window is pruned and the call recorded
checkRateLimitPasses ==
    /\ canMakeRequest(requestTimestamps, now)
    /\ Len(admitted) < MaxCalls
    /\ requestTimestamps' = Append(Prune(requestTimestamps, now), now)
    /\ admitted' = Append(admitted, now)

\* sandbox ids a caller may name
SandboxIds == {"sb1", "sb2"}

\* --------------------------------------------------------- context cache
\* a CodeContext: its id and the sandbox it was created in
Context(id, sb) == [id |-> id, sandboxId |-> sb]

\* the loop of deleteSandbox that leaves every context in the cache
forgetContextsKeepsAll(C, sb) == C

\* the loop of deleteSandbox: the contexts of sandbox sb leave the cache
forgetContexts(C, sb) == {c \in C : c.sandboxId # sb}

\* activeContexts.delete(contextId)
deleteContext(C, id) == {c \in C : c.id # id}

\* activeContexts.set(context.id, context)
setContext(C, context) == deleteContext(C, context.id) \cup {context}

\* ------------------------------------------------------ concurrent jobs
\* incrementConcurrentJobs: the value stored and the value returned
incrementConcurrentJobs(c) == [stored |-> c + 1, returned |-> c + 1]

\* decrementConcurrentJobs: the value stored and the value returned
decrementConcurrentJobs(c) == [stored |-> c - 1, returned |-> Max(c - 1, 0)]

\* getConcurrentJobs
getConcurrentJobs(c) == c

\* ------------------------------------------------------- HTTP requests
\* the HTTP variant before its first request: the requests issued so far, in
\* order, and the requests whose response has not arrived
NoRequests == [issued |-> <<>>, pending |-> {}]

\* ------------------------------------------------------ waitForConnection
WaiterIds == 1..MaxWaiters

\* the value of a Promise<void> that has not rejected, in the shape of the error
\* it may reject with
Void == Err(None, None)

\* a waitForConnection call: the promise it returned, its timer, whether its
\* onConnect is attached to the socket's "connect" event, and the public
\* operation whose ensureConnected() awaits it (None when there is none)
NoWaiter == [promise |-> [state |-> "none", value |-> Void], timer |-> "none",
             deadline |-> 0, subscribed |-> FALSE, op |-> None]

\* onConnect that leaves itself attached
onConnectStaysAttached(w) ==
    IF w.subscribed
    THEN [w EXCEPT !.timer = ClearTimer(@),
                   !.promise = Settle(@, "resolved", Void)]
    ELSE w

\* onConnect of waitForConnection, called by the socket when it is attached
onConnect(w) ==
    IF w.subscribed
    THEN [w EXCEPT !.timer = ClearTimer(@),
                   !.subscribed = FALSE,
                   !.promise = Settle(@, "resolved", Void)]
    ELSE w

\* the timeout callback of waitForConnection
waitTimeout(w) ==
    [w EXCEPT !.timer = "fired",
              !.subscribed = FALSE,
              !.promise = Settle(@, "rejected", Err("TimeoutError", "Connection timeout"))]

\* ----------------------------------------------------------- executeBatch
\* no executeBatch call has been made: state is "idle", "running" or "returned";
\* jobs are the ids of the input jobs, next the position of the loop, awaits the
\* job whose runCode promise the loop awaits, waiting the waitForConnection call
\* the runCode of the loop awaits (0 for none), results the array returned,
\* issued the jobs the loop's runCode calls have emitted
NoBatch == [state |-> "idle", sandbox |-> None, jobs |-> <<>>, next |-> 1,
            awaits |-> 0, waiting |-> 0, results |-> <<>>, issued |-> {}]

\* a BatchExecutionResult: error is String(error), represented by the class name
BatchResult(jobId, success, error) == [jobId |-> jobId, success |-> success, error |-> error]

\* results.push(...) at the end of a loop iteration that also forgets failures;
\* never taken by the code
pushDropsFailures(b, success, error) ==
    LET b1 == [b EXCEPT !.results = IF success
                                    THEN Append(@, BatchResult(b.jobs[b.next], success, error))
                                    ELSE @,
                        !.next = @ + 1, !.awaits = 0, !.waiting = 0]
    IN [b1 EXCEPT !.state = IF b1.next > Len(b1.jobs) THEN "returned" ELSE @]

\* results.push(...) at the end of a loop iteration; after the last iteration
\* executeBatch returns the results
push(b, success, error) ==
    LET b1 == [b EXCEPT !.results = Append(@, BatchResult(b.jobs[b.next], success, error)),
                        !.next = @ + 1, !.awaits = 0, !.waiting = 0]
    IN [b1 EXCEPT !.state = IF b1.next > Len(b1.jobs) THEN "returned" ELSE @]

\* ------------------------------------------------------------------ Init
\* the SDK with no job issued, no waiter and no batch: the cache holds
\* `sandboxes`, the limiter's window `stamps`, the collector `m`
Start(sandboxes, stamps, m) ==
    /\ now = 0
    /\ isConnected = FALSE
    /\ closed = FALSE
    /\ listeners = EmptyRegistry
    /\ socketOn = [ev \in EventNames |-> {}]
    /\ nextId = 1
    /\ kind = [j \in JobIds |-> "none"]
    /\ sandboxOf = [j \in JobIds |-> None]
    /\ promise = [j \in JobIds |-> [state |-> "none", value |-> None]]
    /\ timer = [j \in JobIds |-> "none"]
    /\ deadline = [j \in JobIds |-> 0]
    /\ hasCb = [j \in JobIds |-> FALSE]
    /\ execution = [j \in JobIds |-> NewExecution]
    /\ output = [j \in JobIds |-> <<>>]
    /\ inflight = [j \in JobIds |-> 0]
    /\ metrics = m
    /\ requestTimestamps = stamps
    /\ activeSandboxes = sandboxes
    /\ activeContexts = {}
    /\ concurrentJobs = 0
    /\ http = NoRequests
    /\ waiters = [w \in WaiterIds |-> NoWaiter]
    /\ batch = NoBatch
    /\ thrown = NothingThrown
    /\ admitted = stamps
    /\ samples = m.responseTimes
    /\ received = [j \in JobIds |-> <<>>]
    /\ endSent = {}
    /\ msgs = 0

\* the SDK after its constructor
Init == Start({}, <<>>, NewMetrics)

\* the SDK in which createSandbox has returned sandbox sb1 at time 0, its job
\* settled and its listener removed, before the transport dropped the connection
InitSandbox == Start({"sb1"}, <<0>>, recordRequest(NewMetrics, TRUE, 0))

Issued == 1..(nextId - 1)

\* what a public call leaves alone whatever its outcome
callFrame == <<now, isConnected, closed, waiters, received, endSent, msgs, standalone>>

\* what a public call that issues no job leaves alone as well
noJob == <<listeners, socketOn, nextId, jobVars, metrics, caches, samples>>

\* A job can be issued: ensureConnected() has returned, a fresh id is left, and
\* the job's deadline lies within the modelled time
CanIssue(limit) ==
    /\ isConnected
    /\ nextId <= limit
    /\ now + TimeoutTicks <= MaxTime

\* ---------------------------------------------- the state handlers act on
\* The part of the state a handler or a timer callback can change, as one value,
\* so that a handler is an operator from state to state and socket.emit can call
\* the attached handlers one after another.
Here == [listeners |-> listeners, socketOn |-> socketOn, promise |-> promise,
         timer |-> timer, execution |-> execution, output |-> output,
         inflight |-> inflight, metrics |-> metrics,
         activeSandboxes |-> activeSandboxes, activeContexts |-> activeContexts,
         samples |-> samples]

Becomes(st) ==
    /\ timer' = st.timer
    /\ listeners' = st.listeners
    /\ socketOn' = st.socketOn
    /\ promise' = st.promise
    /\ execution' = st.execution
    /\ output' = st.output
    /\ inflight' = st.inflight
    /\ metrics' = st.metrics
    /\ activeSandboxes' = st.activeSandboxes
    /\ activeContexts' = st.activeContexts
    /\ samples' = st.samples

\* Date.now() - startTime of job j: the job started TimeoutTicks before its deadline
Elapsed(j) == now - (deadline[j] - TimeoutTicks)

\* metricsCollector.recordRequest(success, duration) called by a handler
record(st, success, duration) ==
    [st EXCEPT !.metrics = recordRequest(@, success, duration),
               !.samples = Append(@, duration)]

\* resolve(value) of job j's promise; createSandbox continues after its
\* `await this.sendJob(...)`: it caches the sandbox and records the request;
\* createCodeContext caches the context, which the server made in the sandbox
\* the payload named
resolve(st, j, value) ==
    LET resolves == st.promise[j].state = "pending"
        st1 == [st EXCEPT !.promise[j] = Settle(@, "resolved", value)]
    IN IF resolves /\ kind[j] = "create"
       THEN record([st1 EXCEPT !.activeSandboxes = @ \cup {value}], TRUE, Elapsed(j))
       ELSE IF resolves /\ kind[j] = "context"
            THEN [st1 EXCEPT !.activeContexts = setContext(@, Context(value, sandboxOf[j]))]
            ELSE st1

\* reject(error) of job j's promise; the catch blocks of runCode and of
\* createSandbox record the failed request when the promise they await rejects
reject(st, j, error) ==
    LET rejects == st.promise[j].state = "pending"
        st1 == [st EXCEPT !.promise[j] = Settle(@, "rejected", error)]
    IN IF rejects /\ kind[j] \in {"stream", "create"}
       THEN record(st1, FALSE, Elapsed(j))
       ELSE st1

\* ------------------------------------------------- connection management
\* socket.on("connect")
Connect ==
    /\ ~isConnected
    /\ ~closed
    /\ isConnected' = TRUE
    /\ waiters' = [w \in WaiterIds |-> onConnect(waiters[w])]
    /\ UNCHANGED <<standalone, now, closed, noJob, batch, limiterVars, received, endSent, msgs>>

\* the promise executor of waitForConnection: the timer is armed and onConnect
\* subscribed
waitExecutor == [promise |-> [state |-> "pending", value |-> Void], timer |-> "armed",
                 deadline |-> now + WaitTicks, subscribed |-> TRUE, op |-> None]

\* waitForConnection
WaitForConnection ==
    \E w \in WaiterIds :
        /\ waiters[w].promise.state = "none"
        /\ \A v \in WaiterIds : v < w => waiters[v].promise.state # "none"
        /\ IF isConnected
           THEN waiters' = [waiters EXCEPT ![w].promise = [state |-> "resolved",
                                                          value |-> Void]]
           ELSE /\ now + WaitTicks <= MaxClock
                /\ waiters' = [waiters EXCEPT ![w] = waitExecutor]
        /\ UNCHANGED <<standalone, now, isConnected, closed, noJob, batch, limiterVars, received,
                       endSent, msgs>>

\* the timer of a waitForConnection call fires; when the call was made by the
\* ensureConnected() of a public operation, the operation throws the TimeoutError
WaitTimeout(w) ==
    /\ waiters[w].timer = "armed"
    /\ now >= waiters[w].deadline
    /\ waiters' = [waiters EXCEPT ![w] = waitTimeout(@)]
    /\ thrown' = IF waiters[w].op = None
                 THEN thrown
                 ELSE Thrown(waiters[w].op, "TimeoutError", 0, None)
    /\ UNCHANGED <<standalone, now, isConnected, closed, noJob, batch, requestTimestamps, admitted,
                   received, endSent, msgs>>

\* cleanupAllListeners settling every pending job as well
cleanupAllListenersRejects(st) ==
    [st EXCEPT !.socketOn = CleanupSocket(st.socketOn, st.listeners),
               !.listeners = EmptyRegistry,
               !.promise = [j \in JobIds |->
                               Settle(st.promise[j], "rejected",
                                      Err("ConnectionError", "disconnected"))]]

\* cleanupAllListeners cancelling the timers of the jobs as well
cleanupAllListenersClearsTimers(st) ==
    [st EXCEPT !.socketOn = CleanupSocket(st.socketOn, st.listeners),
               !.listeners = EmptyRegistry,
               !.timer = [j \in JobIds |-> ClearTimer(st.timer[j])]]

\* cleanupAllListeners
cleanupAllListeners(st) ==
    [st EXCEPT !.socketOn = CleanupSocket(st.socketOn, st.listeners),
               !.listeners = EmptyRegistry]

\* socket.on("disconnect")
OnDisconnect ==
    /\ isConnected
    /\ isConnected' = FALSE
    /\ Becomes(cleanupAllListeners(Here))
    /\ UNCHANGED <<standalone, now, closed, nextId, kind, sandboxOf, deadline, hasCb, apiVars, received,
                   endSent, msgs>>

\* disconnect()
Disconnect ==
    /\ Becomes(cleanupAllListeners(Here))
    /\ isConnected' = FALSE
    /\ closed' = TRUE
    /\ UNCHANGED <<standalone, now, nextId, kind, sandboxOf, deadline, hasCb, apiVars, received, endSent, msgs>>

\* the clock advances, up to tick limit
TickUntil(limit) ==
    /\ now < limit
    /\ now' = now + 1
    /\ UNCHANGED <<standalone, isConnected, closed, noJob, apiVars, received, endSent, msgs>>

Tick == TickUntil(MaxTime)

\* ------------------------------------------------------------- sendJob
\* x || y of JavaScript, for an optional string
OrElse(x, y) == IF x \in {None, ""} THEN y ELSE x

\* the listener of sendJob resolving on the success flag alone
listenerIgnoresOutput(st, j, res) ==
    IF ~Matches(j, res.jobId)
    THEN st
    ELSE LET h == Handler(j, "listener")
             st1 == [st EXCEPT !.timer[j] = ClearTimer(@),
                               !.listeners = removeListener(@, RESULT, h),
                               !.socketOn = SocketOff(@, RESULT, {h})]
         IN IF res.success
            THEN resolve(st1, j, res.output)
            ELSE reject(st1, j, Err("SandboxError", OrElse(res.error, "Job failed")))

\* the listener of sendJob
listener(st, j, res) ==
    IF ~Matches(j, res.jobId)
    THEN st
    ELSE LET h == Handler(j, "listener")
             st1 == [st EXCEPT !.timer[j] = ClearTimer(@),
                               !.listeners = removeListener(@, RESULT, h),
                               !.socketOn = SocketOff(@, RESULT, {h})]
         IN IF res.success /\ res.output # None
            THEN resolve(st1, j, res.output)
            ELSE reject(st1, j, Err("SandboxError", OrElse(res.error, "Job failed")))

\* the kinds of the jobs that sendJob issues
SendJobKinds == {"unary", "create", "lookup", "context"}

\* the timeout callback of sendJob
sendJobTimeout(st, j) ==
    reject([st EXCEPT !.timer[j] = "fired",
                      !.listeners = removeListener(@, RESULT, Handler(j, "listener"))],
           j, Err("TimeoutError", "Job timeout"))

\* the promise executor of sendJob, for a job of kind k whose payload names
\* sandbox sb
sendJob(k, sb) ==
    LET j == nextId
        h == Handler(j, "listener")
    IN /\ kind' = [kind EXCEPT ![j] = k]
       /\ sandboxOf' = [sandboxOf EXCEPT ![j] = sb]
       /\ promise' = [promise EXCEPT ![j] = Pending]
       /\ timer' = [timer EXCEPT ![j] = "armed"]
       /\ deadline' = [deadline EXCEPT ![j] = now + TimeoutTicks]
       /\ listeners' = trackListener(listeners, RESULT, h)
       /\ socketOn' = SocketOnAdd(socketOn, RESULT, h)
       /\ nextId' = nextId + 1
       /\ UNCHANGED <<hasCb, execution, output, inflight, metrics, samples>>

\* getTemplates, getTemplate, createTemplate, deleteCodeContext: ensureConnected(),
\* then sendJob
SendJob ==
    /\ CanIssue(MaxJobs)
    /\ sendJob("unary", None)
    /\ UNCHANGED <<callFrame, batch, limiterVars, caches>>

\* the operations that go from ensureConnected() straight to sendJob
SendJobOps == {"getTemplates", "getTemplate", "createTemplate", "deleteCodeContext"}

\* one of these operations called when isReady() is false: ensureConnected()
\* awaits waitForConnection()
EnsureConnectedWaits(op) ==
    /\ ~isConnected
    /\ now + WaitTicks <= MaxClock
    /\ \E w \in WaiterIds :
          /\ waiters[w].promise.state = "none"
          /\ \A v \in WaiterIds : v < w => waiters[v].promise.state # "none"
          /\ waiters' = [waiters EXCEPT ![w] = [waitExecutor EXCEPT !.op = op]]
    /\ UNCHANGED <<standalone, now, isConnected, closed, noJob, batch, limiterVars, received, endSent,
                   msgs>>

\* the operation resumes after its wait has resolved: sendJob
EnsureConnectedResumes(w) ==
    /\ waiters[w].op \in SendJobOps
    /\ waiters[w].promise.state = "resolved"
    /\ CanIssue(MaxJobs)
    /\ waiters' = [waiters EXCEPT ![w].op = None]
    /\ sendJob("unary", None)
    /\ UNCHANGED <<standalone, now, isConnected, closed, received, endSent, msgs, batch, limiterVars,
                   caches>>

\* createSandbox up to its `await this.sendJob(...)`
CreateSandbox ==
    /\ isConnected
    /\ \/ /\ checkRateLimitThrows("createSandbox")
          /\ UNCHANGED <<callFrame, batch, noJob>>
       \/ /\ checkRateLimitPasses
          /\ CanIssue(MaxJobs)
          /\ sendJob("create", None)
          /\ UNCHANGED <<callFrame, batch, thrown, caches>>

\* deleteSandbox: the contexts of the sandbox and the sandbox leave the caches,
\* then sendJob
DeleteSandbox(sb) ==
    /\ CanIssue(MaxJobs)
    /\ activeContexts' = forgetContexts(activeContexts, sb)
    /\ activeSandboxes' = activeSandboxes \ {sb}
    /\ sendJob("unary", sb)
    /\ UNCHANGED <<callFrame, batch, limiterVars>>

\* context ids a caller may name
ContextIds == {"out", "ctx2"}

\* deleteCodeContext: the context leaves the cache, then sendJob
DeleteCodeContext(id) ==
    /\ CanIssue(MaxJobs)
    /\ activeContexts' = deleteContext(activeContexts, id)
    /\ sendJob("unary", None)
    /\ UNCHANGED <<callFrame, batch, limiterVars, activeSandboxes>>

\* the operations that look the sandbox up and then call sendJob
LookupOps == {"getSandboxStatus", "readFile", "writeFile", "deleteFile",
              "listFiles", "createCodeContext"}

\* getSandboxStatus, readFile, writeFile, deleteFile, listFiles, createCodeContext
\* up to their sendJob
LookupCall(op, sb) ==
    /\ isConnected
    /\ IF ~Cached(activeSandboxes, sb)
       THEN /\ thrown' = NotFound(op, sb)
            /\ UNCHANGED <<callFrame, batch, noJob, requestTimestamps, admitted>>
       ELSE /\ CanIssue(MaxJobs)
            /\ sendJob(IF op = "createCodeContext" THEN "context" ELSE "lookup", sb)
            /\ UNCHANGED <<callFrame, batch, limiterVars, caches>>

\* ----------------------------------------------------- sendStreamingJob
Line(type, text) ==
    [type |-> type, text |-> text, is_main_result |-> None, name |-> None,
     value |-> None, traceback |-> None, execution_count |-> None]

\* a line that JSON.parse rejects
BadLine == Line("<not json>", None)

StdoutLine(text) == Line("stdout", text)
StderrLine(text) == Line("stderr", text)
ResultLine(text, main) == [Line("result", text) EXCEPT !.is_main_result = main]
CountLine(n) == [Line("execution_count", None) EXCEPT !.execution_count = n]
ErrorLine(name, value, traceback) ==
    [Line("error", None) EXCEPT !.name = name, !.value = value, !.traceback = traceback]

\* new Result(msg, isMainResult); JSON true and false are "true" and "false"
Result(msg, isMainResult) == [text |-> msg.text, isMainResult |-> isMainResult]

\* new ExecutionError(name, value, traceback)
ExecutionError(name, value, traceback) ==
    [name |-> name, value |-> value, traceback |-> traceback]

\* x ?? y of JavaScript
Coalesce(x, y) == IF x = None THEN y ELSE x

\* parseOutput with stderr lines pushed onto logs.stdout
parseOutputStderrToStdout(e, msg) ==
    CASE msg.type = "result" ->
            [e EXCEPT !.results = Append(@, Result(msg, Coalesce(msg.is_main_result, "false")))]
      [] msg.type \in {"stdout", "stderr"} -> [e EXCEPT !.stdout = Append(@, msg.text)]
      [] msg.type = "error" ->
            [e EXCEPT !.error = ExecutionError(msg.name, msg.value, msg.traceback)]
      [] msg.type = "execution_count" -> [e EXCEPT !.executionCount = msg.execution_count]
      [] OTHER -> e

\* parseOutput: what one decoded line does to the Execution
parseOutput(e, msg) ==
    CASE msg.type = "result" ->
            [e EXCEPT !.results = Append(@, Result(msg, Coalesce(msg.is_main_result, "false")))]
      [] msg.type = "stdout" -> [e EXCEPT !.stdout = Append(@, msg.text)]
      [] msg.type = "stderr" -> [e EXCEPT !.stderr = Append(@, msg.text)]
      [] msg.type = "error" ->
            [e EXCEPT !.error = ExecutionError(msg.name, msg.value, msg.traceback)]
      [] msg.type = "execution_count" -> [e EXCEPT !.executionCount = msg.execution_count]
      [] OTHER -> e

\* the chunk types for which parseOutput awaits a caller callback
CallbackTypes == {"result", "stdout", "stderr", "error"}

\* cleanup of sendStreamingJob
streamCleanup(st, j) ==
    [st EXCEPT !.timer[j] = ClearTimer(@),
               !.socketOn = SocketOff(@, JOB_OUTPUT, {Handler(j, "outputListener")})]

\* outputListener rejecting the job when the Execution carries an error
outputResumeThrowsError(st, j, cb) ==
    IF cb = "fail"
    THEN reject(streamCleanup(st, j), j, Err("CallbackError", "callback failed"))
    ELSE IF st.execution[j].error # NoError
         THEN reject(streamCleanup(st, j), j, Err("ExecutionError", st.execution[j].error.value))
         ELSE st

\* outputListener after `await this.parseOutput(...)`: cb is how the await ended
outputResume(st, j, cb) ==
    IF cb = "fail"
    THEN reject(streamCleanup(st, j), j, Err("CallbackError", "callback failed"))
    ELSE IF st.execution[j].error # NoError
         THEN resolve([streamCleanup(st, j) EXCEPT !.metrics = recordExecution(@)],
                      j, "ExecutionResult")
         ELSE st

\* outputListener up to the end of its `await`: the line is parsed and applied,
\* the callback is called; cb is "ok" or "fail" when the callback has settled
\* by the end of this macrotask and "pending" when it has not
outputListener(st, j, id, line, cb) ==
    IF ~Matches(j, id)
    THEN st
    ELSE IF line = BadLine
         THEN reject(streamCleanup(st, j), j, Err("SyntaxError", "JSON.parse"))
         ELSE LET st2 == [st EXCEPT !.execution[j] = parseOutput(@, line)]
                  called == hasCb[j] /\ line.type \in CallbackTypes
              IN IF called /\ cb = "pending"
                 THEN [st2 EXCEPT !.inflight[j] = @ + 1]
                 ELSE outputResume(st2, j, IF called THEN cb ELSE "ok")

\* the timeout callback of sendStreamingJob
streamTimeout(st, j) ==
    reject(streamCleanup([st EXCEPT !.timer[j] = "fired"], j),
           j, Err("TimeoutError", "Code execution timeout"))

\* the promise executor of sendStreamingJob
sendStreamingJob(sb, cbs) ==
    LET j == nextId
        h == Handler(j, "outputListener")
    IN /\ kind' = [kind EXCEPT ![j] = "stream"]
       /\ sandboxOf' = [sandboxOf EXCEPT ![j] = sb]
       /\ promise' = [promise EXCEPT ![j] = Pending]
       /\ timer' = [timer EXCEPT ![j] = "armed"]
       /\ deadline' = [deadline EXCEPT ![j] = now + TimeoutTicks]
       /\ hasCb' = [hasCb EXCEPT ![j] = cbs]
       /\ execution' = [execution EXCEPT ![j] = NewExecution]
       /\ listeners' = trackListener(listeners, JOB_OUTPUT, h)
       /\ socketOn' = SocketOnAdd(socketOn, JOB_OUTPUT, h)
       /\ nextId' = nextId + 1
       /\ UNCHANGED <<output, inflight, metrics, samples>>

\* runCode up to its `await this.sendStreamingJob(...)`, reached after
\* ensureConnected(): the admission check, the sandbox lookup, the executor
runCode(sb, cbs, limit) ==
    /\ isConnected
    /\ \/ /\ checkRateLimitThrows("runCode")
          /\ UNCHANGED <<callFrame, noJob>>
       \/ /\ checkRateLimitPasses
          /\ IF ~Cached(activeSandboxes, sb)
             THEN /\ thrown' = NotFound("runCode", sb)
                  /\ UNCHANGED <<callFrame, noJob>>
             ELSE /\ CanIssue(limit)
                  /\ sendStreamingJob(sb, cbs)
                  /\ UNCHANGED <<callFrame, thrown, caches>>

\* runCode called by the user
RunCode(sb, cbs, limit) == runCode(sb, cbs, limit) /\ UNCHANGED batch

\* ---------------------------------------------------------- executeBatch
\* the input jobs of executeBatch, by their ids
BatchInputs == {SubSeq(<<"a", "b", "c">>, 1, n) : n \in 0..MaxBatch}

\* executeBatch up to its loop: the sandbox lookup, made in any connection state
ExecuteBatch(sb, jobs) ==
    /\ batch.state = "idle"
    /\ IF ~Cached(activeSandboxes, sb)
       THEN /\ thrown' = NotFound("executeBatch", sb)
            /\ UNCHANGED <<batch, requestTimestamps, admitted>>
       ELSE /\ batch' = [NoBatch EXCEPT !.state = IF jobs = <<>> THEN "returned" ELSE "running",
                                        !.sandbox = sb, !.jobs = jobs]
            /\ UNCHANGED limiterVars
    /\ UNCHANGED <<callFrame, noJob>>

\* one iteration of the loop up to the point where it suspends: runCode's
\* ensureConnected() either goes on (connected, or its wait has resolved) to the
\* admission check, the lookup and the executor, and an error thrown there is
\* caught and pushed; or it starts waiting for the connection
BatchRun ==
    /\ batch.state = "running"
    /\ batch.awaits = 0
    /\ \/ /\ isConnected
          /\ IF batch.waiting = 0 THEN TRUE
             ELSE waiters[batch.waiting].promise.state = "resolved"
          /\ runCode(batch.sandbox, FALSE, MaxJobs)
          /\ batch' = IF nextId' # nextId
                      THEN [batch EXCEPT !.awaits = nextId, !.waiting = 0,
                                         !.issued = @ \cup {nextId}]
                      ELSE push(batch, FALSE, thrown'.class)
       \/ /\ ~isConnected
          /\ batch.waiting = 0
          /\ now + WaitTicks <= MaxClock
          /\ \E w \in WaiterIds :
                /\ waiters[w].promise.state = "none"
                /\ \A v \in WaiterIds : v < w => waiters[v].promise.state # "none"
                /\ waiters' = [waiters EXCEPT ![w] = waitExecutor]
                /\ batch' = [batch EXCEPT !.waiting = w]
          /\ UNCHANGED <<standalone, now, isConnected, closed, noJob, limiterVars, received, endSent,
                         msgs>>

\* the loop resumes after the wait for the connection has timed out: the catch
\* block pushes the failure
BatchWaitFailed ==
    /\ batch.state = "running"
    /\ batch.waiting # 0
    /\ waiters[batch.waiting].promise.state = "rejected"
    /\ batch' = push(batch, FALSE, waiters[batch.waiting].promise.value.class)
    /\ UNCHANGED <<callFrame, noJob, limiterVars>>

\* the loop resumes after the promise of runCode has settled: the result is
\* pushed by the try block when it resolved and by the catch block when it rejected
BatchCollect ==
    /\ batch.state = "running"
    /\ batch.awaits # 0
    /\ promise[batch.awaits].state # "pending"
    /\ batch' = push(batch, promise[batch.awaits].state = "resolved",
                     IF promise[batch.awaits].state = "resolved"
                     THEN None ELSE promise[batch.awaits].value.class)
    /\ UNCHANGED <<callFrame, noJob, limiterVars>>

\* ---------------------------------------------------------- runTerminal
\* cleanup of runTerminal
termCleanup(st, j) ==
    LET sl == Handler(j, "streamListener")
        el == Handler(j, "endListener")
    IN [st EXCEPT !.timer[j] = ClearTimer(@),
                  !.listeners = removeListener(removeListener(@, STREAM, sl), STREAM_END, el),
                  !.socketOn = SocketOff(SocketOff(@, STREAM, {sl}), STREAM_END, {el})]

\* streamListener keeping only the latest chunk
streamListenerOverwrites(st, j, res) ==
    IF Matches(j, res.jobId) /\ res.chunk # <<>>
    THEN [st EXCEPT !.output[j] = res.chunk]
    ELSE st

\* streamListener of runTerminal
streamListener(st, j, res) ==
    IF Matches(j, res.jobId) /\ res.chunk # <<>>
    THEN [st EXCEPT !.output[j] = @ \o res.chunk]
    ELSE st

\* endListener of runTerminal
endListener(st, j, res) ==
    IF Matches(j, res.jobId)
    THEN LET st1 == termCleanup(st, j)
         IN resolve(record(st1, TRUE, Elapsed(j)), j, st1.output[j])
    ELSE st

\* the timeout callback of runTerminal
termTimeout(st, j) ==
    reject(termCleanup([st EXCEPT !.timer[j] = "fired"], j),
           j, Err("TimeoutError", "Terminal command timeout"))

\* the promise executor of runTerminal
terminalExecutor(sb) ==
    LET j == nextId
        sl == Handler(j, "streamListener")
        el == Handler(j, "endListener")
    IN /\ kind' = [kind EXCEPT ![j] = "term"]
       /\ sandboxOf' = [sandboxOf EXCEPT ![j] = sb]
       /\ promise' = [promise EXCEPT ![j] = Pending]
       /\ timer' = [timer EXCEPT ![j] = "armed"]
       /\ deadline' = [deadline EXCEPT ![j] = now + TimeoutTicks]
       /\ output' = [output EXCEPT ![j] = <<>>]
       /\ listeners' = trackListener(trackListener(listeners, STREAM, sl), STREAM_END, el)
       /\ socketOn' = SocketOnAdd(SocketOnAdd(socketOn, STREAM, sl), STREAM_END, el)
       /\ nextId' = nextId + 1
       /\ UNCHANGED <<hasCb, execution, inflight, metrics, samples>>

\* runTerminal up to the end of its promise executor, reached after
\* ensureConnected(): the admission check, the sandbox lookup, the executor
RunTerminal(sb, limit) ==
    /\ isConnected
    /\ \/ /\ checkRateLimitThrows("runTerminal")
          /\ UNCHANGED <<callFrame, batch, noJob>>
       \/ /\ checkRateLimitPasses
          /\ IF ~Cached(activeSandboxes, sb)
             THEN /\ thrown' = NotFound("runTerminal", sb)
                  /\ UNCHANGED <<callFrame, batch, noJob>>
             ELSE /\ CanIssue(limit)
                  /\ terminalExecutor(sb)
                  /\ UNCHANGED <<callFrame, batch, thrown, caches>>

\* ---------------------------------------------- the concurrent-job gauge
\* what a call of the gauge leaves alone
gaugeFrame == <<now, isConnected, closed, noJob, apiVars, received, endSent, msgs, http>>

\* rateLimiter.incrementConcurrentJobs()
IncrementConcurrentJobs ==
    /\ concurrentJobs < MaxGauge
    /\ concurrentJobs' = incrementConcurrentJobs(concurrentJobs).stored
    /\ UNCHANGED gaugeFrame

\* rateLimiter.decrementConcurrentJobs()
DecrementConcurrentJobs ==
    /\ concurrentJobs > -MaxGauge
    /\ concurrentJobs' = decrementConcurrentJobs(concurrentJobs).stored
    /\ UNCHANGED gaugeFrame

\* ------------------------------------------------------ the HTTP variant
\* an HTTP request: its method and the sandbox and context its path names
Request(method, sb, id) == [method |-> method, sandbox |-> sb, context |-> id]

\* what an operation of the HTTP variant leaves alone
httpFrame == <<now, isConnected, closed, listeners, socketOn, nextId, jobVars,
               activeSandboxes, concurrentJobs, requestTimestamps, waiters, batch,
               admitted, received, endSent, msgs>>

\* makeRequest up to its `await fetch(...)`: request q is issued for operation op
fetch(h, op, q) ==
    [h EXCEPT !.issued = Append(@, q),
              !.pending = @ \cup {[id |-> Len(h.issued) + 1, op |-> op,
                                   request |-> q, start |-> now]}]

\* createCodeContext of the HTTP variant up to its `await this.makeRequest(...)`
HttpCreateCodeContext(sb) ==
    /\ IF ~Cached(activeSandboxes, sb)
       THEN /\ thrown' = NotFound("createCodeContext", sb)
            /\ UNCHANGED http
       ELSE /\ Len(http.issued) < MaxRequests
            /\ http' = fetch(http, "createCodeContext", Request("POST", sb, None))
            /\ UNCHANGED thrown
    /\ UNCHANGED <<httpFrame, activeContexts, metrics, samples>>

\* the response to request p arrives, ok or not, carrying id: makeRequest
\* records the request and returns the data or throws SandboxError;
\* createCodeContext then caches the context it was given
HttpResponse(p, ok, id) ==
    /\ p \in http.pending
    /\ http' = [http EXCEPT !.pending = @ \ {p}]
    /\ metrics' = recordRequest(metrics, ok, now - p.start)
    /\ samples' = Append(samples, now - p.start)
    /\ activeContexts' = IF ok /\ p.op = "createCodeContext"
                         THEN setContext(activeContexts, Context(id, p.request.sandbox))
                         ELSE activeContexts
    /\ thrown' = IF ok THEN thrown ELSE Thrown(p.op, "SandboxError", 0, None)
    /\ UNCHANGED httpFrame

\* the timer of makeRequest aborts request p: makeRequest records the request
\* as failed and throws TimeoutError
HttpAbort(p) ==
    /\ p \in http.pending
    /\ now >= p.start + TimeoutTicks
    /\ http' = [http EXCEPT !.pending = @ \ {p}]
    /\ metrics' = recordRequest(metrics, FALSE, now - p.start)
    /\ samples' = Append(samples, now - p.start)
    /\ thrown' = Thrown(p.op, "TimeoutError", 0, None)
    /\ UNCHANGED <<httpFrame, activeContexts>>

\* deleteCodeContext of the HTTP variant: the context leaves the cache, then
\* the cache is searched for it and the DELETE request is made if it is found
HttpDeleteCodeContext(id) ==
    LET left == deleteContext(activeContexts, id)
        found == {c \in left : c.id = id}
    IN /\ activeContexts' = left
       /\ IF found # {}
          THEN /\ Len(http.issued) < MaxRequests
               /\ \E c \in found :
                     http' = fetch(http, "deleteCodeContext",
                                   Request("DELETE", c.sandboxId, id))
          ELSE UNCHANGED http
       /\ UNCHANGED <<httpFrame, metrics, samples, thrown>>

\* the operations that call checkRateLimit
RateLimitedOps == {"createSandbox", "runCode", "runTerminal"}

\* createSandbox, runCode or runTerminal (the latter two called for sandbox sb)
\* resumes after the wait of its ensureConnected() has resolved: the admission
\* check, the sandbox lookup, the executor
RateLimitedResumes(w, sb) ==
    LET op == waiters[w].op
    IN /\ op \in RateLimitedOps
       /\ waiters[w].promise.state = "resolved"
       /\ waiters' = [waiters EXCEPT ![w].op = None]
       /\ \/ /\ checkRateLimitThrows(op)
             /\ UNCHANGED noJob
          \/ /\ checkRateLimitPasses
             /\ IF op # "createSandbox" /\ ~Cached(activeSandboxes, sb)
                THEN /\ thrown' = NotFound(op, sb)
                     /\ UNCHANGED noJob
                ELSE /\ CanIssue(MaxJobs)
                     /\ CASE op = "createSandbox" -> sendJob("create", None)
                          [] op = "runCode" -> sendStreamingJob(sb, FALSE)
                          [] op = "runTerminal" -> terminalExecutor(sb)
                     /\ UNCHANGED <<thrown, caches>>
       /\ UNCHANGED <<standalone, now, isConnected, closed, received, endSent, msgs, batch>>

\* ------------------------------------------------------------ the socket
\* one attached handler called with a message
Call(st, h, msg, cb) ==
    CASE h.fn = "listener" -> listener(st, h.job, msg)
      [] h.fn = "outputListener" -> outputListener(st, h.job, msg.jobId, msg.line, cb)
      [] h.fn = "streamListener" -> streamListener(st, h.job, msg)
      [] h.fn = "endListener" -> endListener(st, h.job, msg)

\* the socket emits an incoming event: every handler attached when the event
\* arrives is called
RECURSIVE Emit(_, _, _, _)
Emit(st, H, msg, cb) ==
    IF H = {} THEN st
    ELSE LET h == CHOOSE x \in H : \A y \in H : x.job <= y.job
         IN Emit(Call(st, h, msg, cb), H \ {h}, msg, cb)

messageFrame == <<now, isConnected, closed, nextId, kind, sandboxOf, deadline, hasCb,
                  apiVars, standalone>>

\* the history of arrivals: msg is noted for job id when the handler h of that
\* job is attached to the socket for event ev
Note(ev, id, h, msg) ==
    received' = IF Handler(id, h) \in socketOn[ev]
                THEN [received EXCEPT ![id] = Append(@, msg)]
                ELSE received

\* a job:result message arrives
DeliverResult(res) ==
    /\ isConnected
    /\ msgs < MaxMsgs
    /\ msgs' = msgs + 1
    /\ Becomes(Emit(Here, socketOn[RESULT], res, "ok"))
    /\ Note(RESULT, res.jobId, "listener", res)
    /\ UNCHANGED <<messageFrame, endSent>>

\* a job:output message arrives
DeliverOutput(id, line, cb, limit) ==
    /\ isConnected
    /\ msgs < limit
    /\ msgs' = msgs + 1
    /\ Becomes(Emit(Here, socketOn[JOB_OUTPUT], [jobId |-> id, line |-> line], cb))
    /\ Note(JOB_OUTPUT, id, "outputListener", line)
    /\ UNCHANGED <<messageFrame, endSent>>

\* a caller callback that was pending settles: its outputListener resumes
CallbackDone(j, cb) ==
    /\ inflight[j] > 0
    /\ Becomes(outputResume([Here EXCEPT !.inflight[j] = @ - 1], j, cb))
    /\ UNCHANGED <<messageFrame, received, endSent, msgs>>

\* a job:stream message arrives
DeliverStream(id, chunk, limit) ==
    /\ isConnected
    /\ msgs < limit
    /\ msgs' = msgs + 1
    /\ Becomes(Emit(Here, socketOn[STREAM], [jobId |-> id, chunk |-> chunk], "ok"))
    /\ Note(STREAM, id, "streamListener", [end |-> FALSE, chunk |-> chunk])
    /\ UNCHANGED <<messageFrame, endSent>>

\* a job:stream:end message arrives; it may close a stream of `limit` chunks
DeliverStreamEnd(id, limit) ==
    /\ isConnected
    /\ msgs < limit + 1
    /\ msgs' = msgs + 1
    /\ endSent' = endSent \cup {id}
    /\ Becomes(Emit(Here, socketOn[STREAM_END], [jobId |-> id], "ok"))
    /\ Note(STREAM_END, id, "endListener", [end |-> TRUE, chunk |-> <<>>])
    /\ UNCHANGED messageFrame

\* the timer of job j fires
TimerFire(j) ==
    /\ timer[j] = "armed"
    /\ now >= deadline[j]
    /\ Becomes(CASE kind[j] \in SendJobKinds -> sendJobTimeout(Here, j)
                 [] kind[j] = "stream" -> streamTimeout(Here, j)
                 [] kind[j] = "term" -> termTimeout(Here, j))
    /\ UNCHANGED <<messageFrame, received, endSent, msgs>>

\* MetricsCollector.recordRequest called with a success flag and a duration
RecordRequest(success, responseTime) ==
    /\ Len(samples) < MaxSamples
    /\ Becomes(record(Here, success, responseTime))
    /\ UNCHANGED <<messageFrame, received, endSent, msgs>>

\* ---------------------------------------------------------------- inputs
\* response times in ticks; the last is an outlier
Durations == {0, 1, 9}

Outputs == {None, "out"}
Errors == {None, "", "boom"}
Results == [jobId : JobIds, success : BOOLEAN, output : Outputs, error : Errors]

ValueError == ErrorLine("ValueError", "bad", "...")
Lines == {StdoutLine("a"), ValueError, BadLine}
AllLines == {StdoutLine("a"), StdoutLine("b"), StderrLine("e"),
             ResultLine("r", "true"), ResultLine("s", None),
             CountLine("1"), CountLine("2"), ValueError, BadLine}
CallbackEnds == {"ok", "fail", "pending"}

Hel == <<"h", "e", "l">>
Lo == <<"l", "o">>
Chunks == {Hel, Lo, <<>>}

\* ------------------------------------------------------- specifications
\* the SDK with one sandbox and up to MaxJobs jobs of any kind on it
Next ==
    \/ Connect
    \/ OnDisconnect
    \/ Disconnect
    \/ Tick
    \/ SendJob
    \/ \E cbs \in BOOLEAN : RunCode("sb1", cbs, MaxJobs)
    \/ RunTerminal("sb1", MaxJobs)
    \/ \E res \in Results : res.jobId \in Issued /\ DeliverResult(res)
    \/ \E id \in Issued, line \in Lines, cb \in CallbackEnds :
          DeliverOutput(id, line, cb, MaxMsgs)
    \/ \E j \in JobIds, cb \in {"ok", "fail"} : CallbackDone(j, cb)
    \/ \E id \in Issued, chunk \in Chunks : DeliverStream(id, chunk, MaxMsgs)
    \/ \E id \in Issued : DeliverStreamEnd(id, MaxMsgs)
    \/ \E j \in JobIds : TimerFire(j)

Spec == InitSandbox /\ [][Next]_vars

\* one runCode job and the lines of its stream
NextAssembly ==
    \/ Connect
    \/ Tick
    \/ \E cbs \in BOOLEAN : RunCode("sb1", cbs, 1)
    \/ \E id \in Issued, line \in AllLines, cb \in CallbackEnds :
          DeliverOutput(id, line, cb, MaxChunks)
    \/ \E j \in JobIds, cb \in {"ok", "fail"} : CallbackDone(j, cb)
    \/ \E j \in JobIds : TimerFire(j)

SpecAssembly == InitSandbox /\ [][NextAssembly]_vars

\* the calls that pass through checkRateLimit, on an SDK with one sandbox
NextAdmission ==
    \/ Connect
    \/ TickUntil(MaxClock)
    \/ CreateSandbox
    \/ \E sb \in SandboxIds : RunCode(sb, FALSE, MaxJobs)
    \/ \E sb \in SandboxIds : RunTerminal(sb, MaxJobs)

SpecAdmission == InitSandbox /\ [][NextAdmission]_vars

\* the public calls on an SDK fresh from its constructor, whose cache is empty
NextCalls ==
    \/ Connect
    \/ TickUntil(MaxClock)
    \/ SendJob
    \/ CreateSandbox
    \/ \E sb \in SandboxIds : RunCode(sb, FALSE, MaxJobs)
    \/ \E sb \in SandboxIds : RunTerminal(sb, MaxJobs)

SpecCalls == Init /\ [][NextCalls]_vars

\* the MetricsCollector fed with samples
NextMetrics ==
    \E success \in BOOLEAN, d \in Durations : RecordRequest(success, d)

SpecMetrics == Init /\ [][NextMetrics]_vars

\* the connection and the callers waiting for it; the clock advances and a
\* timer whose time has come fires
NextWait ==
    \/ Connect
    \/ OnDisconnect
    \/ Disconnect
    \/ TickUntil(MaxClock)
    \/ WaitForConnection
    \/ \E w \in WaiterIds : WaitTimeout(w)

SpecWait ==
    /\ Init
    /\ [][NextWait]_vars
    /\ WF_vars(TickUntil(MaxClock))
    /\ \A w \in WaiterIds : WF_vars(WaitTimeout(w))

\* the replies that carry an output
GoodReplies == [jobId : JobIds, success : {TRUE}, output : {"out"}, error : {None}]

\* the jobs of every kind as far as the listener registry is concerned: issued,
\* completed or timed out, torn down by a disconnect
NextRegistry ==
    \/ Connect
    \/ OnDisconnect
    \/ Tick
    \/ SendJob
    \/ RunCode("sb1", FALSE, MaxJobs)
    \/ RunTerminal("sb1", MaxJobs)
    \/ \E res \in GoodReplies : res.jobId \in Issued /\ DeliverResult(res)
    \/ \E id \in Issued : DeliverOutput(id, ValueError, "ok", MaxMsgs)
    \/ \E id \in Issued : DeliverStreamEnd(id, MaxMsgs)
    \/ \E j \in JobIds : TimerFire(j)

SpecRegistry == InitSandbox /\ [][NextRegistry]_vars

\* the operations that name a sandbox, on a cache that holds sb1 and has never
\* held sb2
NextLookup ==
    \/ Connect
    \/ OnDisconnect
    \/ \E sb \in SandboxIds : DeleteSandbox(sb)
    \/ \E op \in LookupOps, sb \in SandboxIds : LookupCall(op, sb)
    \/ \E sb \in SandboxIds : RunCode(sb, FALSE, MaxJobs)
    \/ \E sb \in SandboxIds : RunTerminal(sb, MaxJobs)
    \/ \E sb \in SandboxIds, jobs \in BatchInputs : ExecuteBatch(sb, jobs)

SpecLookup == InitSandbox /\ [][NextLookup]_vars

\* one executeBatch call among connection changes, timeouts, error lines from
\* the remote side, a deleteSandbox call and runTerminal calls that use up the
\* admission window
NextBatch ==
    \/ Connect
    \/ OnDisconnect
    \/ Tick
    \/ \E sb \in SandboxIds, jobs \in BatchInputs : ExecuteBatch(sb, jobs)
    \/ BatchRun
    \/ BatchWaitFailed
    \/ BatchCollect
    \/ \E w \in WaiterIds : WaitTimeout(w)
    \/ DeleteSandbox("sb1")
    \/ RunTerminal("sb2", MaxJobs)
    \/ \E id \in Issued : DeliverOutput(id, ValueError, "ok", MaxMsgs)
    \/ \E j \in JobIds : TimerFire(j)

SpecBatch == InitSandbox /\ [][NextBatch]_vars

\* jobs of the three kinds among replies, disconnects, disconnect() calls and
\* reconnects; the clock advances and every armed timer whose deadline has come
\* fires (setTimeout), which the fairness conditions state
NextSettle ==
    \/ Connect
    \/ OnDisconnect
    \/ Disconnect
    \/ Tick
    \/ SendJob
    \/ RunCode("sb1", TRUE, MaxJobs)
    \/ RunTerminal("sb1", MaxJobs)
    \/ \E res \in GoodReplies : res.jobId \in Issued /\ DeliverResult(res)
    \/ \E id \in Issued, cb \in {"ok", "pending"} : DeliverOutput(id, ValueError, cb, MaxMsgs)
    \/ \E j \in JobIds : CallbackDone(j, "ok")
    \/ \E id \in Issued : DeliverStreamEnd(id, MaxMsgs)
    \/ \E j \in JobIds : TimerFire(j)

SpecSettle ==
    /\ InitSandbox /\ [][NextSettle]_vars
    /\ WF_now(Tick)
    /\ \A j \in JobIds : WF_timer(TimerFire(j))

\* operations called while the SDK is connected and while it is not
NextOffline ==
    \/ Connect
    \/ OnDisconnect
    \/ TickUntil(MaxClock)
    \/ SendJob
    \/ \E op \in SendJobOps : EnsureConnectedWaits(op)
    \/ \E w \in WaiterIds : EnsureConnectedResumes(w)
    \/ \E w \in WaiterIds : WaitTimeout(w)
    \/ \E j \in JobIds : TimerFire(j)

SpecOffline == Init /\ [][NextOffline]_vars

\* the rate-limited operations called while the SDK is connected (runCode on a
\* sandbox that is not cached passes the admission check and emits no job) and
\* while it is not
NextOrder ==
    \/ Connect
    \/ OnDisconnect
    \/ TickUntil(MaxClock)
    \/ RunCode("sb2", FALSE, MaxJobs)
    \/ \E op \in RateLimitedOps : EnsureConnectedWaits(op)
    \/ \E w \in WaiterIds : RateLimitedResumes(w, "sb1")
    \/ \E w \in WaiterIds : WaitTimeout(w)
    \/ \E j \in JobIds : TimerFire(j)

SpecOrder == InitSandbox /\ [][NextOrder]_vars

\* the two caches: contexts created in sandbox sb1, contexts and the sandbox
\* deleted, the jobs of these calls answered, failed or timed out
NextCache ==
    \/ Connect
    \/ OnDisconnect
    \/ Tick
    \/ LookupCall("createCodeContext", "sb1")
    \/ DeleteSandbox("sb1")
    \/ \E id \in ContextIds : DeleteCodeContext(id)
    \/ \E res \in Results : res.jobId \in Issued /\ DeliverResult(res)
    \/ \E j \in JobIds : TimerFire(j)

SpecCache == InitSandbox /\ [][NextCache]_vars

\* sandboxes created and deleted on an SDK fresh from its constructor
NextSandboxes ==
    \/ Connect
    \/ Tick
    \/ CreateSandbox
    \/ DeleteSandbox("out")
    \/ \E res \in GoodReplies : res.jobId \in Issued /\ DeliverResult(res)
    \/ \E j \in JobIds : TimerFire(j)

SpecSandboxes == Init /\ [][NextSandboxes]_vars

\* the RateLimiter: its admission check, reached through runCode on a sandbox
\* that is not cached, and its gauge
NextLimiter ==
    \/ Connect
    \/ TickUntil(MaxClock)
    \/ RunCode("sb2", FALSE, MaxJobs)
    \/ IncrementConcurrentJobs
    \/ DecrementConcurrentJobs

SpecLimiter == Init /\ [][NextLimiter]_vars

\* the contexts of the HTTP variant, on an SDK with one sandbox
NextHttp ==
    \/ TickUntil(MaxClock)
    \/ \E sb \in SandboxIds : HttpCreateCodeContext(sb)
    \/ \E p \in http.pending, ok \in BOOLEAN, id \in ContextIds : HttpResponse(p, ok, id)
    \/ \E p \in http.pending : HttpAbort(p)
    \/ \E id \in ContextIds : HttpDeleteCodeContext(id)

SpecHttp == InitSandbox /\ [][NextHttp]_vars

\* ------------------------------------------------------------ properties
IsPending(j) == promise[j].state = "pending"
IsResolved(j) == promise[j].state = "resolved"
IsRejected(j) == promise[j].state = "rejected"
RejectedWith(j, class) == IsRejected(j) /\ promise[j].value.class = class

\* some handler of job j is tracked in the registry / attached to the socket
TrackedFor(j) == \E ev \in DOMAIN listeners : \E h \in listeners[ev] : h.job = j
AttachedFor(j) == \E ev \in EventNames : \E h \in socketOn[ev] : h.job = j

\* the lines of type t among R, and their texts
OfType(R, t) == SelectSeq(R, LAMBDA m : m.type = t)
TextsOf(R, t) == [i \in 1..Len(OfType(R, t)) |-> OfType(R, t)[i].text]

\* the chunks of R joined in order
RECURSIVE Joined(_)
Joined(R) == IF R = <<>> THEN <<>> ELSE R[1].chunk \o Joined(Tail(R))

HasEnd(R) == \E i \in 1..Len(R) : R[i].end

\* C1: while jobs a and b are both pending, a step in which a message carrying
\* b's id reaches b's handler neither settles a's promise nor changes a's
\* Execution or terminal output.
C1_CorrelationIsolation ==
    [][\A a, b \in JobIds :
          (a # b /\ IsPending(a) /\ IsPending(b) /\ received'[b] # received[b])
          => /\ promise'[a].state = "pending"
             /\ execution'[a] = execution[a]
             /\ output'[a] = output[a]]_vars

\* C1 witness: two jobs listening on the same event, b settled by its own reply
\* while a is still pending.
C1_Witness ==
    \E a, b \in JobIds :
        /\ a # b /\ kind[a] = kind[b]
        /\ IsPending(a) /\ IsResolved(b) /\ received[b] # <<>>

\* C2: a settled promise never changes again, and every settlement is the
\* resolution or rejection of the reply path (a matching message arrived) or
\* the rejection of the timer path (the timer fired).
C2_ExactlyOneSettlement ==
    /\ [][\A j \in JobIds :
            promise[j].state \in {"resolved", "rejected"} => promise'[j] = promise[j]]_vars
    /\ [](\A j \in JobIds :
            /\ IsResolved(j) => received[j] # <<>>
            /\ IsRejected(j) =>
                  IF promise[j].value.class = "TimeoutError"
                  THEN timer[j] = "fired"
                  ELSE received[j] # <<>>)

\* C2 witness: a unary job rejected by its timer whose reply arrived later and
\* was handled by the listener that was still attached.
C2_Witness ==
    \E j \in JobIds :
        kind[j] = "unary" /\ RejectedWith(j, "TimeoutError") /\ received[j] # <<>>

\* C3 (as claimed): a job rejected with TimeoutError was rejected at or after its
\* deadline and no handler of it is tracked in the registry.
C3_TimeoutLeavesNothingTracked ==
    \A j \in JobIds :
        RejectedWith(j, "TimeoutError") => now >= deadline[j] /\ ~TrackedFor(j)

\* C4 (as claimed): a runCode job with no error chunk whose completion was
\* signalled by the remote side is not left waiting: unless it failed, it has
\* resolved with error unset.
C4_CleanCompletionResolves ==
    \A j \in JobIds :
        (kind[j] = "stream" /\ j \in endSent /\ execution[j].error = NoError
            /\ ~IsRejected(j))
        => IsResolved(j)

\* C5: a step in which a result message with the job's id reaches the listener
\* of a unary job whose timer is armed cancels the timer, removes the listener
\* from the registry and from the socket, and resolves with the output iff
\* success is true and an output is present; otherwise it rejects with
\* SandboxError carrying the error text, or 'Job failed' when there is none.
C5_ResultSettlesUnaryJob ==
    [][\A j \in JobIds :
          (kind[j] = "unary" /\ timer[j] = "armed" /\ received'[j] # received[j])
          => LET res == received'[j][Len(received'[j])]
                 h == Handler(j, "listener")
             IN /\ timer'[j] = "cancelled"
                /\ h \notin Tracked(listeners', RESULT)
                /\ h \notin socketOn'[RESULT]
                /\ IF res.success = TRUE /\ res.output # None
                   THEN /\ promise'[j].state = "resolved"
                        /\ promise'[j].value = res.output
                   ELSE /\ promise'[j].state = "rejected"
                        /\ promise'[j].value =
                              Err("SandboxError",
                                  IF res.error \in {None, ""}
                                  THEN "Job failed" ELSE res.error)]_vars

\* C5 witness: one unary job resolved with the output of its reply and another
\* rejected with 'Job failed' by a reply that had success true and no output.
C5_Witness ==
    \E i, j \in JobIds :
        /\ kind[i] = "unary" /\ IsResolved(i) /\ promise[i].value = "out"
        /\ kind[j] = "unary" /\ RejectedWith(j, "SandboxError")
        /\ promise[j].value.message = "Job failed"
        /\ received[j][1].success /\ timer[j] = "cancelled"

\* the scenario of the streaming assembly
Scenario == <<StdoutLine("a"), StdoutLine("b"), CountLine("1"), ValueError>>

\* C6: the Execution of a streaming job holds the stdout and stderr texts of its
\* lines in arrival order, one Result per result line in arrival order with
\* isMainResult from is_main_result (false when absent), the latest
\* execution_count, and the error of its error line; the scenario a, b,
\* execution_count 1, ValueError yields stdout [a, b], count 1, that error and
\* a resolved job.
C6_StreamingAssembly ==
    \A j \in JobIds :
        kind[j] = "stream" =>
            LET R == received[j]
                e == execution[j]
                results == OfType(R, "result")
                counts == OfType(R, "execution_count")
                errors == OfType(R, "error")
            IN /\ e.stdout = TextsOf(R, "stdout")
               /\ e.stderr = TextsOf(R, "stderr")
               /\ e.results =
                     [i \in 1..Len(results) |->
                         [text |-> results[i].text,
                          isMainResult |-> IF results[i].is_main_result = None
                                           THEN "false"
                                           ELSE results[i].is_main_result]]
               /\ e.executionCount =
                     IF counts = <<>> THEN None
                     ELSE counts[Len(counts)].execution_count
               /\ e.error =
                     IF errors = <<>> THEN NoError
                     ELSE [name |-> errors[Len(errors)].name,
                           value |-> errors[Len(errors)].value,
                           traceback |-> errors[Len(errors)].traceback]
               /\ (R = Scenario /\ ~hasCb[j]) =>
                     /\ e.stdout = <<"a", "b">>
                     /\ e.executionCount = "1"
                     /\ e.error = [name |-> "ValueError", value |-> "bad",
                                   traceback |-> "..."]
                     /\ IsResolved(j)

\* C6 witness: the scenario has been received and the job has resolved.
C6_Witness ==
    \E j \in JobIds : kind[j] = "stream" /\ received[j] = Scenario /\ IsResolved(j)

\* C7: a streaming job that has handled an error line and has no callback
\* outstanding is settled, and resolved when it has no callbacks at all; a
\* resolved job's Execution carries the name, value and traceback of the error
\* line; a rejected job was rejected by its timer, by a failed callback or by a
\* line that does not parse, never by the remote error itself.
C7_RemoteErrorResolves ==
    \A j \in JobIds :
        kind[j] = "stream" =>
            LET errors == OfType(received[j], "error")
            IN /\ (errors # <<>> /\ inflight[j] = 0) => ~IsPending(j)
               /\ (errors # <<>> /\ ~hasCb[j]) => IsResolved(j)
               /\ IsResolved(j) =>
                     /\ errors # <<>>
                     /\ execution[j].error =
                           [name |-> errors[Len(errors)].name,
                            value |-> errors[Len(errors)].value,
                            traceback |-> errors[Len(errors)].traceback]
               /\ IsRejected(j) =>
                     \/ promise[j].value.class = "TimeoutError" /\ timer[j] = "fired"
                     \/ promise[j].value.class = "CallbackError" /\ hasCb[j]
                     \/ promise[j].value.class = "SyntaxError"
                           /\ OfType(received[j], BadLine.type) # <<>>

\* C7 witness: a streaming job with callbacks resolved after its error line.
C7_Witness ==
    \E j \in JobIds :
        /\ kind[j] = "stream" /\ hasCb[j] /\ IsResolved(j)
        /\ execution[j].error.name = "ValueError"

\* C8 (as claimed): when a streaming job has rejected with the failure of a
\* callback, its timer is cancelled and its listener is neither attached to the
\* socket nor tracked in the registry.
C8_CallbackFailureDeregisters ==
    \A j \in JobIds :
        (kind[j] = "stream" /\ RejectedWith(j, "CallbackError"))
        => /\ timer[j] # "armed"
           /\ ~AttachedFor(j)
           /\ ~TrackedFor(j)

\* C9: a runTerminal job has resolved exactly when the stream-end message with
\* its id reached its handler; its output is the chunks that reached it, joined
\* in arrival order, and that is the value it resolves with ('hel', 'lo', end
\* gives 'hello'); once resolved its handlers are untracked and detached and
\* its timer is cancelled.
C9_TerminalOutput ==
    \A j \in JobIds :
        kind[j] = "term" =>
            LET R == received[j]
            IN /\ IsResolved(j) <=> HasEnd(R)
               /\ output[j] = Joined(R)
               /\ IsResolved(j) =>
                     /\ promise[j].value = Joined(R)
                     /\ timer[j] = "cancelled"
                     /\ ~TrackedFor(j)
                     /\ ~AttachedFor(j)
               /\ (Len(R) = 3 /\ R[1].chunk = Hel /\ R[2].chunk = Lo /\ R[3].end)
                     => promise[j].value = <<"h", "e", "l", "l", "o">>

\* C9 witness: 'hel', 'lo' and stream-end arrived and the job resolved with 'hello'
\* while another terminal job that received nothing is pending.
C9_Witness ==
    \E i, j \in JobIds :
        /\ kind[j] = "term" /\ IsResolved(j)
        /\ promise[j].value = <<"h", "e", "l", "l", "o">>
        /\ Len(received[j]) = 3
        /\ kind[i] = "term" /\ IsPending(i) /\ output[i] = <<>>

\* C10: a step that is the transport's disconnect event (connected before, not
\* after) or a disconnect() call (the socket becomes closed) leaves the SDK not
\* connected, the registry empty and no handler that was tracked attached.
C10_DisconnectTearsDown ==
    [][((isConnected /\ ~isConnected') \/ closed' # closed)
          => /\ ~isConnected'
             /\ listeners' = EmptyRegistry
             /\ \A ev \in DOMAIN listeners : listeners[ev] \cap socketOn'[ev] = {}]_vars

\* C10 witness: after disconnect() a job is pending, none of its handlers is
\* attached and the registry is empty.
C10_Witness ==
    \E j \in JobIds :
        /\ closed /\ ~isConnected /\ IsPending(j)
        /\ ~AttachedFor(j) /\ listeners = EmptyRegistry

\* C11: a step that is the transport's disconnect event or a disconnect() call
\* settles no job: every job pending before it is pending after it with its
\* timer armed, and its Execution, its terminal output, its suspended callbacks
\* and the metrics are as they were.
C11_DisconnectSettlesNothing ==
    [][((isConnected /\ ~isConnected') \/ closed' # closed)
          => /\ \A j \in JobIds :
                   IsPending(j) => /\ promise'[j].state = "pending"
                                   /\ timer[j] = "armed"
                                   /\ timer'[j] = "armed"
                                   /\ inflight'[j] = inflight[j]
             /\ execution' = execution
             /\ output' = output
             /\ metrics' = metrics]_vars

\* C11 witness: the transport dropped the connection (no disconnect() call)
\* while two jobs were pending; both are still pending with armed timers and
\* nothing of them is tracked or attached.
C11_Witness ==
    /\ ~isConnected /\ ~closed /\ listeners = EmptyRegistry
    /\ \A j \in JobIds :
          IsPending(j) /\ timer[j] = "armed" /\ ~AttachedFor(j)

\* the admitted calls whose time lies in the window that ends at time t
Recent(t) == {i \in DOMAIN admitted : admitted[i] > t - WindowTicks /\ admitted[i] <= t}

\* the earliest of a non-empty set of times
Earliest(T) == CHOOSE t \in T : \A u \in T : t <= u

\* a step in which a public call threw an error of this class
Throws(class) == thrown' # thrown /\ thrown'.class = class

\* C12: a call is admitted only when fewer than MaxRequestsPerMinute earlier
\* admitted calls lie in the window ending now, and then exactly one timestamp,
\* now, is recorded; a call is refused only when at least that many lie in it,
\* and then none is recorded; the stored window is, whenever pruned, the admitted
\* calls of the window; so no window of WindowTicks holds more admitted calls
\* than the ceiling.
C12_WindowAdmission ==
    /\ [][/\ admitted' # admitted
             => /\ admitted' = Append(admitted, now)
                /\ Cardinality(Recent(now)) < MaxRequestsPerMinute
                /\ requestTimestamps' =
                      [i \in 1..(Cardinality(Recent(now)) + 1) |-> 
                          IF i <= Cardinality(Recent(now))
                          THEN admitted[Len(admitted) - Cardinality(Recent(now)) + i]
                          ELSE now]
          /\ Throws("RateLimitError")
             => /\ Cardinality(Recent(now)) >= MaxRequestsPerMinute
                /\ admitted' = admitted
                /\ Len(requestTimestamps') = Cardinality(Recent(now))]_vars
    /\ [](\A t \in 0..MaxClock : Cardinality(Recent(t)) <= MaxRequestsPerMinute)

\* C12 witness: the ceiling was reached and a call refused, and after the
\* window had rolled on a further call was admitted.
C12_Witness ==
    /\ thrown.class = "RateLimitError"
    /\ Len(admitted) > MaxRequestsPerMinute
    /\ Cardinality(Recent(now)) < Len(admitted)

\* the timestamps the limiter stores
Stored == {requestTimestamps[i] : i \in DOMAIN requestTimestamps}

\* C13: in every state getRetryAfter returns 0 when the limiter stores no
\* timestamp and otherwise WindowTicks - (now - oldest), or 0 when that is
\* negative, oldest being the earliest timestamp stored; it is never negative.
C13_RetryAfter ==
    LET r == getRetryAfter(requestTimestamps, now)
    IN /\ r >= 0
       /\ Stored = {} => r = 0
       /\ Stored # {} =>
             LET d == WindowTicks - (now - Earliest(Stored))
             IN r = IF d > 0 THEN d ELSE 0

\* C13 witness: the oldest stored timestamp is older than the window, so the
\* difference is negative and the result is 0, while a younger one is stored too.
C13_Witness ==
    /\ Len(requestTimestamps) >= 2
    /\ WindowTicks - (now - requestTimestamps[1]) < 0
    /\ getRetryAfter(requestTimestamps, now) = 0
    /\ requestTimestamps[Len(requestTimestamps)] > requestTimestamps[1]

\* C14: a step in which createSandbox, runCode or runTerminal throws
\* RateLimitError is taken with the window full, carries as retryAfter the time
\* until the oldest admitted call of the window leaves it, issues no job,
\* registers and attaches no handler, starts no timer and adds no timestamp;
\* and no job of these operations is issued while the window is full.
C14_RefusalFailsFast ==
    [][/\ Throws("RateLimitError")
          => /\ thrown'.op \in {"createSandbox", "runCode", "runTerminal"}
             /\ Cardinality(Recent(now)) >= MaxRequestsPerMinute
             /\ thrown'.retryAfter =
                   WindowTicks - (now - Earliest({admitted[i] : i \in Recent(now)}))
             /\ nextId' = nextId
             /\ kind' = kind
             /\ listeners' = listeners
             /\ socketOn' = socketOn
             /\ timer' = timer
             /\ admitted' = admitted
             /\ Len(requestTimestamps') <= Len(requestTimestamps)
             /\ \A i \in DOMAIN requestTimestamps' :
                   \E k \in DOMAIN requestTimestamps :
                      requestTimestamps'[i] = requestTimestamps[k]
       /\ (nextId' # nextId /\ kind'[nextId] \in {"create", "stream", "term"})
          => Cardinality(Recent(now)) < MaxRequestsPerMinute]_vars

\* C14 witness: runTerminal was refused with retryAfter 1 while a job admitted
\* earlier is pending and the window holds the ceiling of timestamps.
C14_Witness ==
    /\ thrown = Thrown("runTerminal", "RateLimitError", 1, None)
    /\ Len(requestTimestamps) = MaxRequestsPerMinute
    /\ \E j \in JobIds : IsPending(j)

\* the time at which job j was emitted on the transport
EmittedAt(j) == deadline[j] - TimeoutTicks

\* C15 (as claimed): every job emitted on the transport was admitted by the
\* rate limiter, which recorded a timestamp for it, so no window of WindowTicks
\* holds more emitted jobs than the ceiling.
C15_EveryJobAdmitted ==
    /\ \A j \in Issued : \E i \in DOMAIN admitted : admitted[i] = EmittedAt(j)
    /\ Len(admitted) >= nextId - 1
    /\ \A t \in 0..MaxClock :
          Cardinality({j \in Issued : EmittedAt(j) > t - WindowTicks /\ EmittedAt(j) <= t})
             <= MaxRequestsPerMinute

\* the sum of q[i..j]
RECURSIVE Total(_, _, _)
Total(q, i, j) == IF i > j THEN 0 ELSE q[i] + Total(q, i + 1, j)

\* C16: after n recordRequest calls the ring holds the latest min(n, RingCap)
\* durations in arrival order, never more than RingCap, and averageResponseTime
\* is the arithmetic mean of exactly those (0 before the first call); the
\* counters add up to n.
C16_RollingAverage ==
    LET n == Len(samples)
        k == IF n < RingCap THEN n ELSE RingCap
        avg == metrics.averageResponseTime
    IN /\ metrics.totalRequests = n
       /\ metrics.successfulRequests + metrics.failedRequests = n
       /\ Len(metrics.responseTimes) = k
       /\ \A i \in 1..k : metrics.responseTimes[i] = samples[n - k + i]
       /\ n = 0 => avg.num = 0
       /\ n > 0 => avg.den > 0 /\ avg.num * k = Total(samples, n - k + 1, n) * avg.den

\* C16 witness: an outlier was recorded first and RingCap samples after it; the
\* average is the mean 1/2 of the samples 0 and 1 that are left.
C16_Witness ==
    /\ Len(samples) = RingCap + 1
    /\ samples[1] = 9
    /\ metrics.responseTimes = <<0, 1>>
    /\ metrics.averageResponseTime = Ratio(1, 2)

Waiting(w) == waiters[w].promise.state = "pending"
Settled(w) == waiters[w].promise.state \in {"resolved", "rejected"}

\* C17: a waitForConnection call made while connected is resolved at once with
\* no timer and no subscription; one made while disconnected subscribes and
\* arms its timer, is resolved by the next connect event, is rejected with
\* TimeoutError when its timer fires first, and is settled eventually; once
\* settled it never changes, its subscription is removed, and its timer is
\* cancelled (resolved) or has fired at or after its deadline (rejected).
C17_WaitForConnection ==
    /\ [][\A w \in WaiterIds :
            /\ Settled(w) =>
                  /\ waiters'[w].promise.state = waiters[w].promise.state
                  /\ waiters'[w].timer = waiters[w].timer
                  /\ waiters'[w].subscribed = waiters[w].subscribed
            /\ (waiters[w].promise.state = "none" /\ waiters'[w].promise.state # "none")
               => IF isConnected
                  THEN /\ waiters'[w].promise.state = "resolved"
                       /\ waiters'[w].timer = "none"
                       /\ ~waiters'[w].subscribed
                  ELSE /\ waiters'[w].promise.state = "pending"
                       /\ waiters'[w].timer = "armed"
                       /\ waiters'[w].subscribed
            /\ (Waiting(w) /\ isConnected')
               => waiters'[w].promise.state = "resolved"]_vars
    /\ [](\A w \in WaiterIds :
            /\ Waiting(w) =>
                  ~isConnected /\ waiters[w].subscribed /\ waiters[w].timer = "armed"
            /\ waiters[w].promise.state = "resolved" =>
                  ~waiters[w].subscribed /\ waiters[w].timer \in {"none", "cancelled"}
            /\ waiters[w].promise.state = "rejected" =>
                  /\ ~waiters[w].subscribed
                  /\ waiters[w].timer = "fired"
                  /\ waiters[w].promise.value.class = "TimeoutError"
                  /\ now >= waiters[w].deadline)
    /\ \A w \in WaiterIds : Waiting(w) ~> Settled(w)

\* C17 witness: one call was resolved by a connect event, its timer cancelled,
\* and another was rejected by its timer; neither is subscribed.
C17_Witness ==
    \E v, w \in WaiterIds :
        /\ waiters[v].promise.state = "resolved" /\ waiters[v].timer = "cancelled"
        /\ waiters[w].promise.state = "rejected" /\ waiters[w].timer = "fired"
        /\ ~waiters[v].subscribed /\ ~waiters[w].subscribed

\* every handler closure a job may register
AllHandlers ==
    {Handler(j, fn) : j \in JobIds,
                      fn \in {"listener", "outputListener", "streamListener", "endListener"}}

NoEmptyEntry(L) == \A ev \in DOMAIN L : L[ev] # {}

\* C18: in every reachable state of the registry no event name maps to an
\* empty set, and for every event and handler: tracking twice is tracking once,
\* tracking adds exactly that handler, removing an untracked handler changes
\* nothing, removing twice is removing once, removing removes exactly that
\* handler and leaves no empty entry behind.
C18_RegistryIdempotent ==
    /\ NoEmptyEntry(listeners)
    /\ \A ev \in EventNames, h \in AllHandlers :
          LET T == trackListener(listeners, ev, h)
              R == removeListener(listeners, ev, h)
          IN /\ trackListener(T, ev, h) = T
             /\ Tracked(T, ev) = Tracked(listeners, ev) \cup {h}
             /\ h \notin Tracked(listeners, ev) => R = listeners
             /\ removeListener(R, ev, h) = R
             /\ Tracked(R, ev) = Tracked(listeners, ev) \ {h}
             /\ NoEmptyEntry(R)
             /\ removeListener(T, ev, h) = R

\* C18 witness: a unary job timed out, which removed its listener and with it
\* the job:result entry, and its late reply then removed the untracked listener
\* again, while a handler of another job is tracked under another event.
C18_Witness ==
    \E a, b \in JobIds :
        /\ kind[a] = "unary" /\ RejectedWith(a, "TimeoutError") /\ received[a] # <<>>
        /\ RESULT \notin DOMAIN listeners
        /\ a # b /\ TrackedFor(b)

\* the operations that look their sandbox up in the local cache
SandboxOps == LookupOps \cup {"runCode", "runTerminal", "executeBatch"}

\* C19: a call that fails with SandboxError named a sandbox that is not in the
\* cache, was one of the operations that look the sandbox up, emitted no job,
\* registered and attached no listener, armed no timer and started no batch, and
\* for runCode and runTerminal it had passed the admission check (its timestamp
\* is recorded); and no job that names a sandbox is emitted, and no batch is
\* started, for a sandbox that is not in the cache. executeBatch fails so when
\* disconnected too.
C19_UnknownSandboxFails ==
    [][/\ Throws("SandboxError")
          => /\ thrown'.sandbox \notin activeSandboxes
             /\ thrown'.op \in SandboxOps
             /\ thrown'.op # "executeBatch" => isConnected
             /\ nextId' = nextId
             /\ kind' = kind
             /\ listeners' = listeners
             /\ socketOn' = socketOn
             /\ timer' = timer
             /\ batch' = batch
             /\ IF thrown'.op \in {"runCode", "runTerminal"}
                THEN admitted' = Append(admitted, now)
                ELSE admitted' = admitted
       /\ (nextId' # nextId /\ kind'[nextId] \in {"lookup", "context", "stream", "term"})
          => sandboxOf'[nextId] \in activeSandboxes
       /\ (batch.state = "idle" /\ batch'.state # "idle")
          => batch'.sandbox \in activeSandboxes]_vars

\* C19 witness: after deleteSandbox removed sb1 from the cache, executeBatch on
\* sb1 failed with SandboxError while the SDK was disconnected; the only job
\* ever emitted is the one of deleteSandbox.
C19_Witness ==
    /\ thrown = NotFound("executeBatch", "sb1")
    /\ ~isConnected
    /\ activeSandboxes = {}
    /\ nextId = 2
    /\ kind[1] = "unary" /\ sandboxOf[1] = "sb1"
    /\ batch = NoBatch

\* the error strings a batch result can carry
BatchErrors == {"TimeoutError", "RateLimitError", "SandboxError"}

\* what holds of a batch that has started
BatchInv ==
    batch.state # "idle" =>
        /\ batch.next <= Len(batch.jobs) + 1
        /\ Len(batch.results) = batch.next - 1
        /\ \A i \in DOMAIN batch.results :
              /\ batch.results[i].jobId = batch.jobs[i]
              /\ IF batch.results[i].success
                 THEN batch.results[i].error = None
                 ELSE batch.results[i].error \in BatchErrors
        /\ batch.state = "returned" <=> batch.next > Len(batch.jobs)
        /\ \A j \in batch.issued : IsPending(j) => j = batch.awaits
        /\ Cardinality(batch.issued) <= batch.next
        /\ batch.awaits # 0 =>
              /\ batch.awaits \in batch.issued
              /\ batch.next <= Len(batch.jobs)
              /\ kind[batch.awaits] = "stream"
              /\ sandboxOf[batch.awaits] = batch.sandbox

\* what holds of every step of a batch
BatchStep ==
    /\ batch.state # "idle" =>
          /\ batch'.state # "idle"
          /\ batch'.jobs = batch.jobs
          /\ batch'.sandbox = batch.sandbox
          /\ Len(batch'.results) \in {Len(batch.results), Len(batch.results) + 1}
          /\ SubSeq(batch'.results, 1, Len(batch.results)) = batch.results
    /\ batch'.issued # batch.issued =>
          /\ batch'.issued = batch.issued \cup {nextId}
          /\ nextId' = nextId + 1
          /\ batch.awaits = 0
          /\ \A j \in batch.issued : ~IsPending(j)
          /\ Cardinality(batch.issued) < batch.next
    /\ (batch.state # "idle" /\ Len(batch'.results) # Len(batch.results)) =>
          LET r == batch'.results[Len(batch'.results)]
          IN IF batch.awaits # 0
             THEN /\ ~IsPending(batch.awaits)
                  /\ r.success <=> IsResolved(batch.awaits)
                  /\ ~r.success => r.error = promise[batch.awaits].value.class
             ELSE /\ ~r.success
                  /\ nextId' = nextId
    /\ (thrown' # thrown /\ thrown'.op = "executeBatch") =>
          /\ thrown'.class = "SandboxError"
          /\ batch.state = "idle"
          /\ batch' = batch

\* C20: a started batch emits at most one job per input job, each only after every
\* job it emitted earlier has settled and its result has been pushed; the
\* results grow by one at a time, the i-th carrying the id of the i-th input job,
\* success exactly when the job's runCode promise resolved and otherwise the
\* error's string; the batch has returned exactly when every input job has its
\* result, so a failed job neither ends the loop nor makes executeBatch throw:
\* executeBatch throws only SandboxError, before the loop.
C20_BatchSequential == []BatchInv /\ [][BatchStep]_vars

\* C20 witness: a batch of two jobs has returned; the first job timed out and is
\* reported as failed, the second was emitted after that and is reported as
\* successful.
C20_Witness ==
    /\ batch.state = "returned"
    /\ batch.results = <<BatchResult("a", FALSE, "TimeoutError"), BatchResult("b", TRUE, None)>>
    /\ batch.issued = {1, 2}
    /\ EmittedAt(2) >= deadline[1]

\* the jobs issued through sendJob
Unary(j) == kind[j] \in SendJobKinds

\* C21: once the timer of a sendJob job has fired, no handler of the job is
\* attached to the socket, and a job:result message that arrives for its id is
\* received by no handler of the job.
C21_LateResultDropped ==
    /\ [](\A j \in JobIds : (Unary(j) /\ timer[j] = "fired") => ~AttachedFor(j))
    /\ [][\A j \in JobIds : (Unary(j) /\ timer[j] = "fired") => received'[j] = received[j]]_vars

\* the handlers the registry tracks, over all events
TrackedHandlers == UNION {listeners[ev] : ev \in DOMAIN listeners}

\* C22: a step in which a pending job settles otherwise than by its timer leaves
\* no handler of the job in the registry; and in every state the registry tracks
\* handlers of pending jobs only, so the jobs it holds handlers of are no more
\* than the pending jobs.
C22_RegistryHoldsPendingOnly ==
    /\ [][\A j \in JobIds :
             (IsPending(j) /\ promise'[j].state # "pending" /\ timer'[j] # "fired")
             => \A h \in TrackedHandlers' : h.job # j]_vars
    /\ [](/\ \A h \in TrackedHandlers : IsPending(h.job)
          /\ Cardinality({h.job : h \in TrackedHandlers})
                <= Cardinality({j \in JobIds : IsPending(j)}))

\* C23: in every state a pending job has its timer armed (so no step cancels
\* the timer of a job and leaves the job pending), and, the clock advancing and
\* armed timers firing, every pending job eventually settles.
C23_EveryJobSettles ==
    /\ [](\A j \in JobIds : IsPending(j) => timer[j] = "armed")
    /\ \A j \in JobIds : IsPending(j) ~> ~IsPending(j)

\* C23 witness: after disconnect() a runCode job whose callback is still
\* pending has been rejected by its timer, having received one line.
C23_Witness ==
    \E j \in JobIds :
        /\ closed
        /\ kind[j] = "stream" /\ inflight[j] > 0 /\ Len(received[j]) = 1
        /\ RejectedWith(j, "TimeoutError")

\* C24: a line reaches the outputListener of a streaming job only when no
\* earlier invocation of it for the job is suspended in a callback, so at most
\* one invocation per job is under way.
C24_ChunksAppliedOneAtATime ==
    /\ [][\A j \in JobIds :
             (kind[j] = "stream" /\ received'[j] # received[j]) => inflight[j] = 0]_vars
    /\ [](\A j \in JobIds : inflight[j] <= 1)

\* C25: once the Execution of a streaming job carries an error, no step changes
\* the Execution, and no line reaches the job's outputListener (which would
\* call the caller's callback for it).
C25_ErrorChunkEndsTheWait ==
    [][\A j \in JobIds :
          (kind[j] = "stream" /\ execution[j].error # NoError)
          => /\ execution'[j] = execution[j]
             /\ received'[j] = received[j]]_vars

\* C26: recordExecution has been called exactly once for every runCode job
\* that resolved and for no other job, so each step adds at most one call, and
\* only in a step that resolves a runCode job.
C26_OneExecutionPerResolvedJob ==
    /\ [](metrics.executions = Cardinality({j \in JobIds : kind[j] = "stream" /\ IsResolved(j)}))
    /\ [][metrics'.executions # metrics.executions
            => \E j \in JobIds : /\ kind[j] = "stream" /\ IsPending(j)
                                  /\ promise'[j].state = "resolved"
                                  /\ metrics'.executions = metrics.executions + 1]_vars

\* C27: a step in which an operation is called while the SDK is not connected
\* makes the operation throw ConnectionError in that step, arms no timer,
\* tracks and attaches no listener and emits no job; and no operation ever
\* throws TimeoutError because the SDK was not connected.
C27_OfflineCallFailsAtOnce ==
    /\ [][\A w \in WaiterIds :
             (waiters[w].promise.state = "none" /\ waiters'[w].op # None)
             => /\ thrown'.op = waiters'[w].op
                /\ thrown'.class = "ConnectionError"
                /\ waiters'[w].timer # "armed"
                /\ timer' = timer
                /\ listeners' = listeners
                /\ socketOn' = socketOn
                /\ nextId' = nextId]_vars
    /\ [](thrown.class # "TimeoutError")

\* a pending job whose handlers a disconnect has taken off the socket
Stale(j) == IsPending(j) /\ ~AttachedFor(j)

\* a step from a state where j is pending settles it by its timer only
TimesOut(j) ==
    IsPending(j) /\ timer[j] = "armed" /\ now >= deadline[j]
    /\ timer'[j] = "fired"
    /\ promise'[j].state = "rejected" /\ promise'[j].value.class = "TimeoutError"

\* C28 as stated: while the SDK is disconnected no pending job has a handler
\* on the socket; a pending job left without handlers receives no reply in any
\* later step, reconnected or not, and a step settles it only by its timer,
\* rejecting with TimeoutError.
C28_StaleReplyIgnored ==
    /\ [](~isConnected => \A j \in JobIds : IsPending(j) => ~AttachedFor(j))
    /\ [][\A j \in JobIds :
             Stale(j) => /\ received'[j] = received[j]
                         /\ (promise'[j].state # "pending" => TimesOut(j))]_vars

\* C28 amended: as above, except that a job whose outputListener was suspended
\* in a caller callback at the disconnect may also settle in the step in which
\* that callback ends.
C28_StaleReplyIgnoredUnlessSuspended ==
    /\ [](~isConnected => \A j \in JobIds : IsPending(j) => ~AttachedFor(j))
    /\ [][\A j \in JobIds :
             Stale(j) => /\ received'[j] = received[j]
                         /\ (promise'[j].state # "pending"
                             => \/ TimesOut(j)
                                \/ inflight[j] > 0 /\ inflight'[j] = inflight[j] - 1)]_vars

\* C28 witness: the only job issued is pending without handlers, the SDK has
\* reconnected, and a reply has arrived that no handler of the job received.
C28_Witness ==
    /\ nextId = 2 /\ Stale(1)
    /\ isConnected /\ msgs >= 1 /\ received[1] = <<>>

\* C29: in every state the handlers attached to the socket for an event are
\* exactly the handlers the registry tracks for it; and while the SDK is
\* disconnected, the teardown done, no job handler is attached to the socket.
C29_AttachedIffTracked ==
    /\ \A ev \in EventNames : socketOn[ev] = Tracked(listeners, ev)
    /\ ~isConnected => \A ev \in EventNames : socketOn[ev] = {}

\* the handlers of job k among the handlers H
Of(H, k) == {h \in H : h.job = k}

\* C30: a step that settles a pending job j, by a reply or by its timer,
\* leaves every other pending job k pending, with its timer, its handlers in
\* the registry and its handlers on the socket unchanged for every event.
C30_SettlingKeepsOtherJobs ==
    [][\A j \in JobIds :
          (IsPending(j) /\ promise'[j].state # "pending")
          => \A k \in JobIds \ {j} :
                IsPending(k)
                => /\ promise'[k] = promise[k]
                   /\ timer'[k] = timer[k]
                   /\ \A ev \in EventNames :
                         /\ Of(Tracked(listeners', ev), k) = Of(Tracked(listeners, ev), k)
                         /\ Of(socketOn'[ev], k) = Of(socketOn[ev], k)]_vars

\* C30 witness: two sendJob jobs listen on job:result; the second has been
\* resolved by its reply while the first, issued before it, is still pending
\* with its timer armed and its listener tracked and attached.
C30_Witness ==
    /\ kind[1] = "unary" /\ kind[2] = "unary"
    /\ IsResolved(2) /\ received[2] # <<>>
    /\ IsPending(1) /\ timer[1] = "armed"
    /\ Handler(1, "listener") \in Tracked(listeners, RESULT)
    /\ Handler(1, "listener") \in socketOn[RESULT]

\* C31: a step in which createSandbox, runCode or runTerminal is called while
\* the window of the rate limiter is full and the SDK is not connected makes the
\* call throw RateLimitError in that step, and starts no wait for the
\* connection.
C31_AdmissionBeforeConnection ==
    [][\A w \in WaiterIds :
          (/\ waiters[w].promise.state = "none"
           /\ waiters'[w].op \in RateLimitedOps
           /\ ~isConnected
           /\ ~canMakeRequest(requestTimestamps, now))
          => /\ thrown'.op = waiters'[w].op
             /\ thrown'.class = "RateLimitError"
             /\ waiters'[w].timer # "armed"]_vars

\* the jobs of createSandbox, runCode and runTerminal among the jobs J
Counted(J) == {j \in J : kind[j] \in {"create", "stream", "term"}}

\* the jobs that a step settles, and those it settles in the given state
SettledNow == {j \in JobIds : IsPending(j) /\ promise'[j].state # "pending"}
SettledAs(state) == {j \in SettledNow : promise'[j].state = state}

\* C32: every step adds to totalRequests the number of createSandbox, runCode
\* and runTerminal jobs it settles (one at most), to successfulRequests those
\* it resolves and to failedRequests those it rejects, a timeout included.
C32_EverySettlementRecorded ==
    [][/\ metrics'.totalRequests
            = metrics.totalRequests + Cardinality(Counted(SettledNow))
       /\ metrics'.successfulRequests
            = metrics.successfulRequests + Cardinality(Counted(SettledAs("resolved")))
       /\ metrics'.failedRequests
            = metrics.failedRequests + Cardinality(Counted(SettledAs("rejected")))]_vars

\* the times at which a later admission check may be made
Later(t) == t..(MaxClock + WindowTicks)

\* C33: a step in which checkRateLimit refuses a call at time now carries a
\* retryAfter r with 0 < r <= WindowTicks, and leaves a window that admits a
\* call at every time from now + r on; and a step that admits no call never
\* turns a time at which the window admits a call into one at which it refuses.
C33_RetryAfterSuffices ==
    [][/\ Throws("RateLimitError")
          => /\ thrown'.retryAfter > 0
             /\ thrown'.retryAfter <= WindowTicks
             /\ \A t \in Later(now + thrown'.retryAfter) :
                   canMakeRequest(requestTimestamps', t)
       /\ admitted' = admitted
          => \A t \in Later(now') :
                canMakeRequest(requestTimestamps, t) => canMakeRequest(requestTimestamps', t)]_vars

\* C33 witness: a call has just been refused with the window full, the
\* retryAfter it carries is positive, and the time it names lies ahead.
C33_Witness ==
    /\ thrown.class = "RateLimitError" /\ thrown.retryAfter > 0
    /\ Len(requestTimestamps) = MaxRequestsPerMinute
    /\ ~canMakeRequest(requestTimestamps, now)
    /\ thrown.retryAfter = getRetryAfter(requestTimestamps, now)
    /\ now + thrown.retryAfter <= MaxClock
    /\ canMakeRequest(requestTimestamps, now + thrown.retryAfter)

\* C34: in every state every context in the context cache was created in a
\* sandbox that is in the sandbox cache.
C34_ContextsOfCachedSandboxes ==
    \A c \in activeContexts : c.sandboxId \in activeSandboxes

\* C35: the step in which deleteSandbox emits its job leaves the sandbox and
\* every context of it out of the caches, and the step in which
\* deleteCodeContext emits its job leaves the context out of the cache; and a
\* step in which the job of either rejects, by its timer or by a failed reply,
\* changes neither cache.
C35_DeleteForgetsFirst ==
    [][/\ \A sb \in SandboxIds :
             DeleteSandbox(sb)
             => /\ promise'[nextId].state = "pending"
                /\ sb \notin activeSandboxes'
                /\ \A c \in activeContexts' : c.sandboxId # sb
       /\ \A id \in ContextIds :
             DeleteCodeContext(id)
             => /\ promise'[nextId].state = "pending"
                /\ \A c \in activeContexts' : c.id # id
       /\ \A j \in JobIds :
             (kind[j] = "unary" /\ IsPending(j) /\ promise'[j].state = "rejected")
             => /\ activeSandboxes' = activeSandboxes
                /\ activeContexts' = activeContexts]_vars

\* C35 witness: a context was created in sb1 and cached, deleteSandbox then
\* removed it and sb1, and its job was rejected: both caches are still empty.
C35_Witness ==
    /\ kind[1] = "context" /\ IsResolved(1)
    /\ kind[2] = "unary" /\ sandboxOf[2] = "sb1" /\ IsRejected(2)
    /\ activeSandboxes = {} /\ activeContexts = {}

\* C36: in every state the activeSandboxes field of the metrics, which
\* getMetrics returns, is the number of sandboxes in the sandbox cache.
C36_GaugeCountsCache ==
    metrics.activeSandboxes = Cardinality(activeSandboxes)

\* C38: in every state getConcurrentJobs returns a number that is not negative;
\* a step from a gauge of zero leaves it at zero or, incrementing, at one.
C38_GaugeNeverNegative ==
    /\ [](getConcurrentJobs(concurrentJobs) >= 0)
    /\ [][getConcurrentJobs(concurrentJobs) = 0
            => getConcurrentJobs(concurrentJobs') \in {0, 1}]_vars

\* C37: a step in which the HTTP variant's deleteCodeContext is called with
\* the id of a cached context leaves no context of that id in the cache and
\* issues exactly one request, a DELETE for that context of its sandbox.
C37_HttpDeleteIssuesRequest ==
    [][\A c \in activeContexts :
          HttpDeleteCodeContext(c.id)
          => /\ \A d \in activeContexts' : d.id # c.id
             /\ http'.issued = Append(http.issued, Request("DELETE", c.sandboxId, c.id))]_vars

====
